---- MODULE Spec2Model ----
(***************************************************************************)
(* A model of the Data Prepper pipeline test scripts:                      *)
(*   generate_test_logs.py     (TestLogGenerator)                          *)
(*   verify_opensearch_logs.py (OpenSearchLogVerifier and its CLI)         *)
(*   test-error-handling.py    (DataPrepperErrorTester and its main)       *)
(*   test_integration.py       (DataPrepperIntegrationTest and its main)   *)
(*                                                                         *)
(* Strings that the code inspects are modelled by their structure: an      *)
(* attribute or placeholder name is the sequence of its dot-separated      *)
(* parts ("user.id" is <<"user","id">>), a message template is a sequence  *)
(* of literal and placeholder segments, a metrics line is a sequence of    *)
(* characters. Random draws and HTTP responses are nondeterministic        *)
(* choices from small sets.                                                *)
(***************************************************************************)
EXTENDS Integers, Sequences, FiniteSets, TLC

VARIABLES
    \* ---- resolve_template_values on one template
    rpc,            \* "start" | "done"
    template,       \* the template passed in
    template0,      \* the template as it was before the call (history)
    resolved,       \* what the call returned (NoResult before the call)
    \* ---- generate_otlp_logs / generate_structured_logs
    gpc,            \* "idle" | "otlp" | "structured" | "otlp_done" | "structured_done"
    num_logs,       \* argument num_logs
    trace_arg,      \* argument trace_id (None when not supplied)
    trace_id,       \* local trace_id of generate_otlp_logs
    current_time_ns,\* local current_time_ns
    gi,             \* loop index i
    log_records,    \* local log_records / logs
    gresult,        \* the returned value (empty before the return)
    \* ---- the document store behind the search endpoint
    store,          \* service name -> number of indexed documents
    \* ---- verify_opensearch_logs.py: one run of main
    vpc,            \* "idle" | "start" | "connect" | "command" | "stats_agg" | "exit"
    vargs,          \* the parsed command line
    vreqs,          \* HTTP requests issued so far, with the status answered
    vret,           \* what the command's method returned
    vexit,          \* the exit code of the process (None while running)
    \* ---- check_dlq_metrics on one metrics response
    dpc,            \* "start" | "done"
    mtext,          \* response.text of the metrics endpoint
    mout,           \* what the request met
    dlq_metrics,    \* the mapping returned
    \* ---- test-error-handling.py: one run of main
    epc,            \* "idle" | "start" | "services" | "tests" | "load" | "load_send" | "search" | "metrics" | "health" | "report" | "exit"
    eargs,          \* the parsed command line
    ei,             \* loop index of run_error_tests / generate_load_test
    test_results,   \* run_error_tests: test_results, in insertion order
    sent_count,     \* generate_load_test: sent_count
    error_count,    \* generate_load_test: error_count
    elast,          \* the last method call: its requests and what it returned
    ehealth,        \* outcomes of the health requests of check_services so far
    results,        \* run_dlq_validation: the mapping being built
    eexit,          \* the exit code of the process (None while running)
    \* ---- test_integration.py: one run of main
    ipc,            \* "idle" | "start" | "services" | "template" | "send" | "wait" | "search"
                    \* | "transform" | "metrics" | "cleanup" | "summary" | "exit"
    iargs,          \* the parsed command line
    iservice,       \* check_services: index of the service being waited for
    iattempt,       \* wait_for_service: attempts made
    inflight,       \* logs accepted by the collector and not yet indexed
    itest_results,  \* run_integration_tests: test_results
    ilast,          \* the last method call: its requests and what it returned
    iret,           \* what run_integration_tests returned (None while running)
    iexit,          \* the exit code of the process (None while running)
    \* ---- test_integration.py: two runs of main against one document store
    cpc,            \* per run: "idle" | "start" | "services" | "send" | "wait" | "search"
                    \* | "verify" | "cleanup" | "exit"
    cargs,          \* per run: the parsed command line
    cinflight,      \* per run: logs accepted by the collector and not yet indexed
    cown,           \* per run: the documents the run would find if it ran alone
    csearch         \* per run: the search of step 5, what answered it and its verdict

rvars == <<rpc, template, template0, resolved>>
gvars == <<gpc, num_logs, trace_arg, trace_id, current_time_ns, gi, log_records, gresult>>
vvars == <<vpc, vargs, vreqs, vret, vexit>>
dvars == <<dpc, mtext, mout, dlq_metrics>>
evars == <<epc, eargs, ei, test_results, sent_count, error_count, elast, ehealth, results, eexit>>
ivars == <<ipc, iargs, iservice, iattempt, inflight, itest_results, ilast, iret, iexit>>
cvars == <<cpc, cargs, cinflight, cown, csearch>>
vars == <<rvars, gvars, store, vvars, dvars, evars, ivars, cvars>>

None == "None"
Zero == "int:0"                   \* the number 0, apart from every string

\* ------------------------------------------------------------------ bounds
MaxLogs == 2          \* largest num_logs
MaxSegs == 2          \* segments of an arbitrary message template
MaxAttrs == 2         \* attributes of an arbitrary template
MaxHits == 2          \* documents in one search response
MaxFields == 2        \* length of the --fields list
MaxText == 4          \* tokens of a metrics text
MaxLoad == 2          \* largest --num-logs of a load test

Draws == {1, 2}                   \* outcomes of one random draw
Uuids == {"u1", "u2"}             \* outcomes of uuid.uuid4().hex
SuppliedTraceIds == {"t1"}        \* trace_id arguments a caller may pass
BaseTimes == {1000}               \* int(time.time() * 1_000_000_000), scaled down
MaxCallables == 4                 \* generator calls one record can make

\* ------------------------------------------------------------------ helpers
RECURSIVE SeqsUpTo(_, _)
SeqsUpTo(S, n) ==
    IF n = 0 THEN {<<>>}
    ELSE LET shorter == SeqsUpTo(S, n - 1)
         IN  shorter \cup {Append(s, x) : s \in {t \in shorter : Len(t) = n - 1}, x \in S}

Range(s) == {s[k] : k \in 1..Len(s)}

\* random.choice(seq) / random.randint with the draw d: the d-th outcome
Pick(choices, d) == choices[((d - 1) % Len(choices)) + 1]

\* ------------------------------------------------------------------ templates
Lit(text) == [kind |-> "lit", text |-> text, name |-> <<>>]
Ph(name) == [kind |-> "ph", text |-> "", name |-> name]
Val(text) == [kind |-> "val", text |-> text, name |-> <<>>]

Gen(key, choices) == [key |-> key, callable |-> TRUE, value |-> "", choices |-> choices]
Const(key, value) == [key |-> key, callable |-> FALSE, value |-> value, choices |-> <<>>]

generate_log_templates ==
    << [severity |-> <<9, "INFO">>,
        message_template |-> <<Lit("User authentication successful for user_id="),
                               Ph(<<"user_id">>)>>,
        attributes |-> <<Gen(<<"user", "id">>, <<"10000", "99999">>),
                         Const(<<"action">>, "login"),
                         Gen(<<"ip_address">>, <<"192.168.1.1", "192.168.1.254">>),
                         Const(<<"user_agent">>, "Mozilla/5.0 (compatible; TestClient/1.0)")>>],
       [severity |-> <<13, "ERROR">>,
        message_template |-> <<Lit("Database connection failed: "),
                               Ph(<<"error_reason">>)>>,
        attributes |-> <<Gen(<<"database", "name">>, <<"user_db", "product_db", "order_db">>),
                         Gen(<<"error", "type">>, <<"connection_timeout", "auth_failed", "network_error">>),
                         Gen(<<"retry_count">>, <<"1", "5">>),
                         Gen(<<"error_reason">>, <<"timeout after 30s", "authentication failed", "host unreachable">>)>>],
       [severity |-> <<5, "DEBUG">>,
        message_template |-> <<Lit("Processing request with correlation_id="),
                               Ph(<<"correlation_id">>)>>,
        attributes |-> <<Gen(<<"correlation_id">>, <<"0a1b2c3d", "ffffffff">>),
                         Gen(<<"request", "method">>, <<"GET", "POST", "PUT", "DELETE">>),
                         Gen(<<"request", "path">>, <<"/api/v1/users", "/api/v1/orders", "/api/v1/products">>),
                         Gen(<<"response", "status_code">>, <<"200", "201", "400", "404", "500">>)>>],
       [severity |-> <<17, "FATAL">>,
        message_template |-> <<Lit("Critical system failure: "),
                               Ph(<<"failure_type">>)>>,
        attributes |-> <<Gen(<<"memory", "used">>, <<"85%", "99%">>),
                         Gen(<<"system", "component">>, <<"application_server", "database", "cache_layer">>),
                         Gen(<<"failure_type">>, <<"out of memory", "disk full", "service unavailable">>)>>],
       [severity |-> <<12, "WARN">>,
        message_template |-> <<Lit("High response time detected: "),
                               Ph(<<"response_time">>),
                               Lit("ms for endpoint "),
                               Ph(<<"endpoint">>)>>,
        attributes |-> <<Gen(<<"response_time">>, <<"1000", "5000">>),
                         Gen(<<"endpoint">>, <<"/api/search", "/api/checkout", "/api/report">>),
                         Const(<<"threshold">>, "1000ms"),
                         Gen(<<"client_id">>, <<"client_1000", "client_9999">>)>>],
       [severity |-> <<9, "INFO">>,
        message_template |-> <<Lit("Order "),
                               Ph(<<"order_id">>),
                               Lit(" processed successfully for customer "),
                               Ph(<<"customer_id">>)>>,
        attributes |-> <<Gen(<<"order_id">>, <<"ORD-100000", "ORD-999999">>),
                         Gen(<<"customer_id">>, <<"CUST-10000", "CUST-99999">>),
                         Gen(<<"order_amount">>, <<"$10.10", "$1000.99">>),
                         Gen(<<"payment_method">>, <<"credit_card", "paypal", "bank_transfer">>)>>] >>

\* f"{{{key}}}" in template["message_template"]
InTemplate(key, message_template) ==
    \E k \in 1..Len(message_template) :
        message_template[k].kind = "ph" /\ message_template[k].name = key

\* str.format(**format_values), left to right: a placeholder names a field by
\* its first part; the parts after a dot are attribute lookups on the value.
RECURSIVE FormatFrom(_, _, _, _)
FormatFrom(segs, format_values, k, out) ==
    IF k > Len(segs) THEN [outcome |-> "ok", text |-> out]
    ELSE LET seg == segs[k] IN
         IF seg.kind # "ph"
         THEN FormatFrom(segs, format_values, k + 1, Append(out, seg))
         ELSE IF <<seg.name[1]>> \notin DOMAIN format_values
              THEN [outcome |-> "KeyError", text |-> <<>>]
              ELSE IF Len(seg.name) > 1
                   THEN [outcome |-> "AttributeError", text |-> <<>>]
                   ELSE FormatFrom(segs, format_values, k + 1,
                                   Append(out, Val(format_values[<<seg.name[1]>>])))

\* a formatter that leaves an unknown placeholder in place and goes on
RECURSIVE FormatLenientFrom(_, _, _, _)
FormatLenientFrom(segs, format_values, k, out) ==
    IF k > Len(segs) THEN [outcome |-> "ok", text |-> out]
    ELSE LET seg == segs[k] IN
         IF seg.kind = "ph" /\ seg.name \in DOMAIN format_values
         THEN FormatLenientFrom(segs, format_values, k + 1, Append(out, Val(format_values[seg.name])))
         ELSE FormatLenientFrom(segs, format_values, k + 1, Append(out, seg))

FormatLenient(segs, format_values) == FormatLenientFrom(segs, format_values, 1, <<>>)

Format(segs, format_values) == FormatFrom(segs, format_values, 1, <<>>)

EmptyMap == [x \in {} |-> ""]

\* the loop of resolve_template_values over template["attributes"].items();
\* stream[n] is the outcome of the n-th generator call
RECURSIVE ResolveLoop(_, _, _, _, _, _)
ResolveLoop(tmpl, stream, k, calls, resolved_attributes, format_values) ==
    IF k > Len(tmpl.attributes)
    THEN [resolved_attributes |-> resolved_attributes,
          format_values |-> format_values, calls |-> calls]
    ELSE LET a == tmpl.attributes[k]
             actual_value == IF a.callable THEN Pick(a.choices, stream[calls + 1])
                             ELSE a.value
             used == InTemplate(a.key, tmpl.message_template)
         IN  ResolveLoop(tmpl, stream, k + 1,
                         IF a.callable THEN calls + 1 ELSE calls,
                         Append(resolved_attributes, [key |-> a.key, value |-> actual_value]),
                         IF used THEN (a.key :> actual_value) @@ format_values
                         ELSE format_values)

\* a resolver that calls a generator a second time for the message
RECURSIVE ResolveLoopTwice(_, _, _, _, _, _)
ResolveLoopTwice(tmpl, stream, k, calls, resolved_attributes, format_values) ==
    IF k > Len(tmpl.attributes)
    THEN [resolved_attributes |-> resolved_attributes,
          format_values |-> format_values, calls |-> calls]
    ELSE LET a == tmpl.attributes[k]
             used == InTemplate(a.key, tmpl.message_template)
             again == a.callable /\ used
             actual_value == IF a.callable THEN Pick(a.choices, stream[(calls % MaxCallables) + 1])
                             ELSE a.value
             message_value == IF again
                              THEN Pick(a.choices, stream[((calls + 1) % MaxCallables) + 1])
                              ELSE actual_value
         IN  ResolveLoopTwice(tmpl, stream, k + 1,
                              IF again THEN calls + 2 ELSE IF a.callable THEN calls + 1 ELSE calls,
                              Append(resolved_attributes, [key |-> a.key, value |-> actual_value]),
                              IF used THEN (a.key :> message_value) @@ format_values
                              ELSE format_values)

resolve_template_values_twice(tmpl, stream) ==
    LET r == ResolveLoopTwice(tmpl, stream, 1, 0, <<>>, EmptyMap)
        f == Format(tmpl.message_template, r.format_values)
    IN  [outcome |-> IF f.outcome = "AttributeError" THEN "raise" ELSE "return",
         severity |-> tmpl.severity,
         message_template |-> tmpl.message_template,
         message |-> IF f.outcome = "ok" THEN f.text
                     ELSE IF f.outcome = "KeyError" THEN tmpl.message_template
                     ELSE <<>>,
         attributes |-> r.resolved_attributes,
         calls |-> r.calls]

\* a resolver whose fallback drops the placeholders of the template
resolve_template_values_strip(tmpl, stream) ==
    LET r == ResolveLoop(tmpl, stream, 1, 0, <<>>, EmptyMap)
        f == Format(tmpl.message_template, r.format_values)
    IN  [outcome |-> IF f.outcome = "AttributeError" THEN "raise" ELSE "return",
         severity |-> tmpl.severity,
         message_template |-> tmpl.message_template,
         message |-> IF f.outcome = "ok" THEN f.text
                     ELSE IF f.outcome = "KeyError"
                     THEN SelectSeq(tmpl.message_template, LAMBDA seg : seg.kind # "ph")
                     ELSE <<>>,
         attributes |-> r.resolved_attributes,
         calls |-> r.calls]

resolve_template_values(tmpl, stream) ==
    LET r == ResolveLoop(tmpl, stream, 1, 0, <<>>, EmptyMap)
        f == Format(tmpl.message_template, r.format_values)
    IN  [outcome |-> IF f.outcome = "AttributeError" THEN "raise" ELSE "return",
         severity |-> tmpl.severity,
         message_template |-> tmpl.message_template,
         message |-> IF f.outcome = "ok" THEN f.text
                     ELSE IF f.outcome = "KeyError" THEN tmpl.message_template
                     ELSE <<>>,
         attributes |-> r.resolved_attributes,
         calls |-> r.calls]

\* ------------------------------------------------------------------ one call of resolve_template_values
ArbNames == {<<"a">>, <<"b">>, <<"a", "b">>}
ArbSegments == {Lit("x")} \cup {Ph(n) : n \in ArbNames}
ArbAttributes == {Gen(n, <<"v1", "v2">>) : n \in ArbNames} \cup {Const(n, "c") : n \in ArbNames}

\* a mapping has one entry per key
DistinctKeys(attrs) == \A j, k \in 1..Len(attrs) : attrs[j].key = attrs[k].key => j = k

ArbTemplates ==
    {[severity |-> <<9, "INFO">>, message_template |-> m, attributes |-> a] :
        m \in SeqsUpTo(ArbSegments, MaxSegs),
        a \in {x \in SeqsUpTo(ArbAttributes, MaxAttrs) : DistinctKeys(x)}}

Streams == [1..MaxCallables -> Draws]

NoResult == [outcome |-> "none", severity |-> <<0, "">>, message_template |-> <<>>,
             message |-> <<>>, attributes |-> <<>>, calls |-> 0]

IdleR == rpc = "idle" /\ template = NoResult /\ template0 = NoResult /\ resolved = NoResult

InitResolve ==
    /\ rpc = "start"
    /\ template \in ArbTemplates \cup Range(generate_log_templates)
    /\ template0 = template
    /\ resolved = NoResult

\* a resolver that writes the resolved values into its argument
ResolveInPlace ==
    /\ rpc \in {"start", "done"}
    /\ \E stream \in Streams :
        LET r == resolve_template_values(template, stream) IN
        /\ resolved' = r
        /\ template' = [template EXCEPT
                           !.attributes = [k \in 1..Len(r.attributes) |->
                                              Const(r.attributes[k].key, r.attributes[k].value)]]
    /\ rpc' = "done"
    /\ UNCHANGED template0

\* resolved = template.copy() ... return resolved: the argument is only
\* read, and the generator may be called again with the same template
Resolve ==
    /\ rpc \in {"start", "done"}
    /\ \E stream \in Streams : resolved' = resolve_template_values(template, stream)
    /\ rpc' = "done"
    /\ UNCHANGED <<template, template0>>

\* ------------------------------------------------------------------ generate_otlp_logs / generate_structured_logs

IdleG ==
    /\ gpc = "idle" /\ num_logs = 0 /\ trace_arg = None /\ trace_id = None
    /\ current_time_ns = 0 /\ gi = 0 /\ log_records = <<>> /\ gresult = <<>>

\* lines 116-121: trace_id defaults to a fresh uuid, the loop starts empty
CallOtlp ==
    /\ gpc = "idle"
    /\ \E n \in 0..MaxLogs, t \in {None} \cup SuppliedTraceIds, u \in Uuids, now \in BaseTimes :
        /\ num_logs' = n
        /\ trace_arg' = t
        /\ trace_id' = IF t = None THEN u ELSE t
        /\ current_time_ns' = now
    /\ gi' = 0
    /\ log_records' = <<>>
    /\ gpc' = "otlp"
    /\ UNCHANGED gresult

OtlpAttributes(attrs) ==
    [k \in 1..Len(attrs) |-> [key |-> attrs[k].key, value |-> [stringValue |-> attrs[k].value]]]

OtlpRecord(r, i, now, tid, span) ==
    [timeUnixNano |-> now + i * 1000000,
     observedTimeUnixNano |-> now + i * 1000000,
     severityNumber |-> r.severity[1],
     severityText |-> r.severity[2],
     body |-> [stringValue |-> r.message],
     attributes |-> OtlpAttributes(r.attributes),
     traceId |-> tid,
     spanId |-> span,
     flags |-> 1]

\* one iteration of the loop at lines 123-149
OtlpIter ==
    /\ gpc = "otlp"
    /\ gi < num_logs
    /\ \E t \in Range(generate_log_templates), stream \in Streams, span \in Uuids :
        LET r == resolve_template_values(t, stream) IN
        IF r.outcome = "raise"
        THEN gpc' = "raised" /\ UNCHANGED <<gi, log_records>>
        ELSE /\ log_records' = Append(log_records, OtlpRecord(r, gi, current_time_ns, trace_id, span))
             /\ gi' = gi + 1
             /\ gpc' = gpc
    /\ UNCHANGED <<num_logs, trace_arg, trace_id, current_time_ns, gresult>>

service_name == "test-service"
service_version == "1.0.0"

KV(k, v) == [key |-> k, value |-> [stringValue |-> v]]

\* a tree whose host name is not drawn
OtlpTreeFixedHost(records, hostDraw, envDraw) ==
    [resourceLogs |-> <<
        [resource |-> [attributes |-> <<
             KV("service.name", service_name),
             KV("service.version", service_version),
             KV("host.name", "host-01"),
             KV("container.name", <<service_name, "-container">>),
             KV("deployment.environment",
                Pick(<<"development", "staging", "production">>, envDraw))>>],
         scopeLogs |-> <<
             [scope |-> [name |-> <<service_name, "-logger">>, version |-> "1.0.0"],
              logRecords |-> records]>>]>>]

\* the return at lines 152-186
OtlpTree(records, hostDraw, envDraw) ==
    [resourceLogs |-> <<
        [resource |-> [attributes |-> <<
             KV("service.name", service_name),
             KV("service.version", service_version),
             KV("host.name", Pick(<<"host-01", "host-10">>, hostDraw)),
             KV("container.name", <<service_name, "-container">>),
             KV("deployment.environment",
                Pick(<<"development", "staging", "production">>, envDraw))>>],
         scopeLogs |-> <<
             [scope |-> [name |-> <<service_name, "-logger">>, version |-> "1.0.0"],
              logRecords |-> records]>>]>>]

\* a loop that stops one record short
OtlpReturnShort ==
    /\ gpc = "otlp"
    /\ gi >= num_logs - 1
    /\ \E hostDraw \in Draws, envDraw \in Draws :
        gresult' = <<OtlpTree(log_records, hostDraw, envDraw)>>
    /\ gpc' = "otlp_done"
    /\ UNCHANGED <<num_logs, trace_arg, trace_id, current_time_ns, gi, log_records>>

OtlpReturn ==
    /\ gpc = "otlp"
    /\ gi >= num_logs
    /\ \E hostDraw \in Draws, envDraw \in Draws :
        gresult' = <<OtlpTree(log_records, hostDraw, envDraw)>>
    /\ gpc' = "otlp_done"
    /\ UNCHANGED <<num_logs, trace_arg, trace_id, current_time_ns, gi, log_records>>

\* lines 190-191
CallStructured ==
    /\ gpc = "idle"
    /\ \E n \in 0..MaxLogs : num_logs' = n
    /\ gi' = 0
    /\ log_records' = <<>>
    /\ gpc' = "structured"
    /\ UNCHANGED <<trace_arg, trace_id, current_time_ns, gresult>>

StructuredEntry(r, now, tid, span) ==
    [timestamp |-> now,
     service_name |-> service_name,
     service_version |-> service_version,
     severity_text |-> r.severity[2],
     severity_number |-> r.severity[1],
     message |-> r.message,
     attributes |-> r.attributes,
     trace_id |-> tid,
     span_id |-> span]

\* one iteration of the loop at lines 193-209
StructuredIter ==
    /\ gpc = "structured"
    /\ gi < num_logs
    /\ \E t \in Range(generate_log_templates), stream \in Streams,
          now \in BaseTimes, tid \in Uuids, span \in Uuids :
        LET r == resolve_template_values(t, stream) IN
        IF r.outcome = "raise"
        THEN gpc' = "raised" /\ UNCHANGED <<gi, log_records>>
        ELSE /\ log_records' = Append(log_records, StructuredEntry(r, now, tid, span))
             /\ gi' = gi + 1
             /\ gpc' = gpc
    /\ UNCHANGED <<num_logs, trace_arg, trace_id, current_time_ns, gresult>>

\* line 211
StructuredReturn ==
    /\ gpc = "structured"
    /\ gi >= num_logs
    /\ gresult' = <<log_records>>
    /\ gpc' = "structured_done"
    /\ UNCHANGED <<num_logs, trace_arg, trace_id, current_time_ns, gi, log_records>>

\* ------------------------------------------------------------------ HTTP and the document store
Services == {"test-service", "integration-test-service"}
NoStore == store = [s \in Services |-> 0]

\* what one request can meet: a transport exception or an answer with a status
Statuses == {200, 204, 500}
Exc == [exc |-> TRUE, status |-> 0]
Answer(status) == [exc |-> FALSE, status |-> status]
Outcomes == {Exc} \cup {Answer(st) : st \in Statuses}

\* a request as issued, with what answered it (json: the body of a 200 answer)
Req(method, path, outcome, json) ==
    [method |-> method, path |-> path, exc |-> outcome.exc, status |-> outcome.status,
     json |-> IF ~outcome.exc /\ outcome.status = 200 THEN json ELSE <<>>]

\* ------------------------------------------------------------------ OpenSearchLogVerifier
FieldNames == {"service_name", "message"}
FieldValues == {None, "", "x"}
Sources == UNION {[D -> FieldValues] : D \in SUBSET FieldNames}
Hits == {[has_source |-> TRUE, _source |-> src] : src \in Sources}
        \cup {[has_source |-> FALSE, _source |-> EmptyMap]}
HitLists == SeqsUpTo(Hits, MaxHits)

\* hits.total of a search response: absent, a scalar n, an object {value: n},
\* or an object without a value
TotalAbsent == [present |-> FALSE, is_dict |-> FALSE, has_value |-> FALSE, n |-> 0]
TotalScalar(n) == [present |-> TRUE, is_dict |-> FALSE, has_value |-> FALSE, n |-> n]
TotalObject(n) == [present |-> TRUE, is_dict |-> TRUE, has_value |-> TRUE, n |-> n]
TotalNoValue == [present |-> TRUE, is_dict |-> TRUE, has_value |-> FALSE, n |-> 0]
HitCounts == {0, 5}
Totals ==
    {TotalAbsent, TotalNoValue}
    \cup {TotalScalar(n) : n \in HitCounts} \cup {TotalObject(n) : n \in HitCounts}

Buckets == {[key |-> "INFO", doc_count |-> 3], [key |-> "ERROR", doc_count |-> 2]}
BucketLists == SeqsUpTo(Buckets, 1)

NoJson == [total |-> TotalAbsent, hits |-> <<>>,
           severity_buckets |-> <<>>, service_buckets |-> <<>>]

\* lines 20-26
check_opensearch_connection(o) == ~o.exc /\ o.status = 200

\* lines 38-57: (success, result)
search_logs(o, json) ==
    IF o.exc THEN [success |-> FALSE, error |-> "RequestException", result |-> NoJson]
    ELSE IF o.status = 200 THEN [success |-> TRUE, error |-> "", result |-> json]
    ELSE [success |-> FALSE, error |-> "HTTP", result |-> NoJson]

\* lines 70-75 (and 88-93, 114-119, 132-137): (success, logs)
search_by(o, json) ==
    LET r == search_logs(o, json) IN
    IF r.success
    THEN [success |-> TRUE,
          logs |-> [k \in 1..Len(r.result.hits) |->
                       IF r.result.hits[k].has_source THEN r.result.hits[k]._source
                       ELSE EmptyMap]]
    ELSE [success |-> FALSE, logs |-> <<>>]

\* lines 148-152: the hit count as an integer
\* a reading that knows only the object shape
TotalCountObjectOnly(total) ==
    IF total.present /\ total.is_dict /\ total.has_value THEN total.n ELSE 0

TotalCount(total) ==
    LET total_logs == IF total.present THEN total ELSE TotalNoValue IN
    IF total_logs.is_dict
    THEN (IF total_logs.has_value THEN total_logs.n ELSE 0)
    ELSE total_logs.n

RECURSIVE Distribution(_, _, _)
Distribution(buckets, k, acc) ==
    IF k > Len(buckets) THEN acc
    ELSE Distribution(buckets, k + 1, (buckets[k].key :> buckets[k].doc_count) @@ acc)

NoStats == [error |-> "", total_logs |-> 0,
            severity_distribution |-> EmptyMap, service_distribution |-> EmptyMap,
            requests |-> 0]

\* lines 139-194; o1, json1 answer the count query and o2, json2 the aggregation
get_log_statistics(o1, json1, o2, json2) ==
    LET r1 == search_logs(o1, json1)
        r2 == search_logs(o2, json2)
    IN  IF ~r1.success
        THEN [NoStats EXCEPT !.error = "Failed to get log statistics", !.requests = 1]
        ELSE [error |-> "",
              total_logs |-> TotalCount(r1.result.total),
              severity_distribution |->
                  IF r2.success THEN Distribution(r2.result.severity_buckets, 1, EmptyMap)
                  ELSE EmptyMap,
              service_distribution |->
                  IF r2.success THEN Distribution(r2.result.service_buckets, 1, EmptyMap)
                  ELSE EmptyMap,
              requests |-> 2]

\* lines 211-217
EmptyFieldStats(required_fields) ==
    [f \in Range(required_fields) |-> [present |-> 0, missing |-> 0, sample_values |-> <<>>]]

\* lines 221-227 for one hit: every entry of the list is visited
RECURSIVE CountFields(_, _, _, _)
CountFields(source, required_fields, k, field_stats) ==
    IF k > Len(required_fields) THEN field_stats
    ELSE LET field == required_fields[k]
             st == field_stats[field]
         IN  CountFields(source, required_fields, k + 1,
                 IF field \in DOMAIN source /\ source[field] # None
                 THEN [field_stats EXCEPT ![field] =
                          [present |-> st.present + 1,
                           missing |-> st.missing,
                           sample_values |-> IF Len(st.sample_values) < 3
                                             THEN Append(st.sample_values, source[field])
                                             ELSE st.sample_values]]
                 ELSE [field_stats EXCEPT ![field].missing = st.missing + 1])

\* lines 219-227
RECURSIVE CountHits(_, _, _, _)
CountHits(hits, required_fields, k, field_stats) ==
    IF k > Len(hits) THEN field_stats
    ELSE CountHits(hits, required_fields, k + 1,
             CountFields(IF hits[k].has_source THEN hits[k]._source ELSE EmptyMap,
                         required_fields, 1, field_stats))

\* lines 196-232
verify_log_fields(required_fields, o, json) ==
    LET r == search_logs(o, json) IN
    IF ~r.success
    THEN [error |-> "Failed to retrieve logs for field verification",
          total_logs_checked |-> 0, field_statistics |-> EmptyMap]
    ELSE IF r.result.hits = <<>>
    THEN [error |-> "No logs found for verification",
          total_logs_checked |-> 0, field_statistics |-> EmptyMap]
    ELSE [error |-> "",
          total_logs_checked |-> Len(r.result.hits),
          field_statistics |->
              CountHits(r.result.hits, required_fields, 1, EmptyFieldStats(required_fields))]

\* lines 234-250
delete_logs_by_service(o) == ~o.exc /\ o.status = 200

\* what the search engine does with a delete-by-query it answers with 200
StoreAfterDelete(st, service, o) ==
    IF ~o.exc /\ o.status = 200 THEN [st EXCEPT ![service] = 0] ELSE st

\* ------------------------------------------------------------------ verify_opensearch_logs.py: main
Commands == {"none", "status", "search-service", "search-severity", "search-trace",
             "stats", "verify-fields", "delete-service"}

NoArgs == [command |-> "none", service_name |-> "", confirm |-> FALSE, fields |-> <<>>]
NoRet == [kind |-> "none", success |-> FALSE, logs |-> <<>>, stats |-> NoStats,
          fields |-> [error |-> "", total_logs_checked |-> 0, field_statistics |-> EmptyMap]]

IdleV == vpc = "idle" /\ vargs = NoArgs /\ vreqs = <<>> /\ vret = NoRet /\ vexit = None

InitStore == store \in [Services -> {0, 2}]

InitVer ==
    /\ vpc = "start" /\ vargs = NoArgs /\ vreqs = <<>> /\ vret = NoRet /\ vexit = None
    /\ InitStore

\* lines 322-326: parse the command line; without a command print the help and return
VParse ==
    /\ vpc = "start"
    /\ \E c \in Commands, svc \in Services, confirm \in BOOLEAN,
          fields \in SeqsUpTo(FieldNames, MaxFields) \ {<<>>} :
        vargs' = [command |-> c,
                  service_name |-> IF c \in {"search-service", "delete-service"} THEN svc ELSE "",
                  confirm |-> c = "delete-service" /\ confirm,
                  fields |-> IF c = "verify-fields" THEN fields ELSE <<>>]
    /\ vpc' = IF vargs'.command = "none" THEN "exit" ELSE "connect"
    /\ vexit' = IF vargs'.command = "none" THEN 0 ELSE None
    /\ UNCHANGED <<vreqs, vret, store>>

\* a main that goes on to the command after a failed connection check
VConnectContinue ==
    /\ vpc = "connect"
    /\ \E o \in Outcomes : vreqs' = Append(vreqs, Req("GET", "/", o, <<>>))
    /\ vpc' = "command"
    /\ vexit' = None
    /\ UNCHANGED <<vargs, vret, store>>

\* lines 328-333
VConnect ==
    /\ vpc = "connect"
    /\ \E o \in Outcomes :
        /\ vreqs' = Append(vreqs, Req("GET", "/", o, <<>>))
        /\ vpc' = IF check_opensearch_connection(o) THEN "command" ELSE "exit"
        /\ vexit' = IF check_opensearch_connection(o) THEN None ELSE 0
    /\ UNCHANGED <<vargs, vret, store>>

\* lines 335-344 with get_indices_info, lines 28-36
VStatus ==
    /\ vpc = "command" /\ vargs.command = "status"
    /\ \E o \in Outcomes : vreqs' = Append(vreqs, Req("GET", "/_cat/indices", o, <<>>))
    /\ vpc' = "exit" /\ vexit' = 0
    /\ UNCHANGED <<vargs, vret, store>>

\* lines 346-365
VSearch ==
    /\ vpc = "command"
    /\ vargs.command \in {"search-service", "search-severity", "search-trace"}
    /\ \E o \in Outcomes, hits \in HitLists :
        LET json == [NoJson EXCEPT !.hits = hits]
            r == search_by(o, json)
        IN
        /\ vreqs' = Append(vreqs, Req("GET", "/_search", o, json))
        /\ vret' = [NoRet EXCEPT !.kind = "search", !.success = r.success, !.logs = r.logs]
    /\ vpc' = "exit" /\ vexit' = 0
    /\ UNCHANGED <<vargs, store>>

\* main, lines 139-146: the count query of get_log_statistics; a failed
\* search returns the error and the command ends
VStatsCount ==
    /\ vpc = "command" /\ vargs.command = "stats"
    /\ \E o1 \in Outcomes, total \in Totals :
        LET json1 == [NoJson EXCEPT !.total = total]
            failed == ~search_logs(o1, json1).success
        IN  /\ vreqs' = Append(vreqs, Req("GET", "/_search", o1, json1))
            /\ vret' = IF failed
                       THEN [NoRet EXCEPT !.kind = "stats", !.success = FALSE,
                                          !.stats = get_log_statistics(o1, json1, Exc, NoJson)]
                       ELSE vret
            /\ vpc' = IF failed THEN "exit" ELSE "stats_agg"
            /\ vexit' = IF failed THEN 0 ELSE None
    /\ UNCHANGED <<vargs, store>>

\* lines 148-194: the aggregation query, sent after the count query was
\* answered; the statistics are built from both answers
VStatsAggregate ==
    /\ vpc = "stats_agg"
    /\ \E o2 \in Outcomes, sev \in BucketLists, svc \in BucketLists :
        LET q1 == vreqs[Len(vreqs)]
            json2 == [NoJson EXCEPT !.severity_buckets = sev, !.service_buckets = svc]
            st == get_log_statistics(Answer(q1.status), q1.json, o2, json2)
        IN  /\ vreqs' = Append(vreqs, Req("GET", "/_search", o2, json2))
            /\ vret' = [NoRet EXCEPT !.kind = "stats", !.success = st.error = "", !.stats = st]
    /\ vpc' = "exit" /\ vexit' = 0
    /\ UNCHANGED <<vargs, store>>

\* lines 384-401
VVerifyFields ==
    /\ vpc = "command" /\ vargs.command = "verify-fields"
    /\ \E o \in Outcomes, hits \in HitLists :
        LET json == [NoJson EXCEPT !.hits = hits]
            r == verify_log_fields(vargs.fields, o, json)
        IN
        /\ vreqs' = Append(vreqs, Req("GET", "/_search", o, json))
        /\ vret' = [NoRet EXCEPT !.kind = "fields", !.success = r.error = "", !.fields = r]
    /\ vpc' = "exit" /\ vexit' = 0
    /\ UNCHANGED <<vargs, store>>

\* a delete-service that does not look at --confirm
VDeleteServiceUnguarded ==
    /\ vpc = "command" /\ vargs.command = "delete-service"
    /\ \E o \in Outcomes :
        /\ vreqs' = Append(vreqs, Req("POST", "/_delete_by_query", o, <<>>))
        /\ vret' = [NoRet EXCEPT !.kind = "delete", !.success = delete_logs_by_service(o)]
        /\ store' = StoreAfterDelete(store, vargs.service_name, o)
    /\ vpc' = "exit" /\ vexit' = 0
    /\ UNCHANGED vargs

\* lines 403-413
VDeleteService ==
    /\ vpc = "command" /\ vargs.command = "delete-service"
    /\ IF ~vargs.confirm
       THEN UNCHANGED <<vreqs, vret, store>>
       ELSE \E o \in Outcomes :
            /\ vreqs' = Append(vreqs, Req("POST", "/_delete_by_query", o, <<>>))
            /\ vret' = [NoRet EXCEPT !.kind = "delete", !.success = delete_logs_by_service(o)]
            /\ store' = StoreAfterDelete(store, vargs.service_name, o)
    /\ vpc' = "exit" /\ vexit' = 0
    /\ UNCHANGED vargs

\* Ctrl-C while a request is pending: main has no handler, the interpreter
\* ends the process (exit status 1, or 130 when it re-raises SIGINT)
VInterrupt ==
    /\ vpc \in {"connect", "command", "stats_agg"}
    /\ vpc' = "exit"
    /\ \E code \in {1, 130} : vexit' = code
    /\ UNCHANGED <<vargs, vreqs, vret, store>>


\* ------------------------------------------------------------------ DataPrepperErrorTester.check_dlq_metrics
\* A text is a sequence of tokens: a token is a piece of text that holds a
\* keyword whole or not at all, a space, a '#' or a line break.
Vocabulary == {"dlq", "Error", "x", "#", " ", "\n"}
Texts == SeqsUpTo(Vocabulary, MaxText)

\* str.lower()
Lower(tok) == IF tok = "Error" THEN "error" ELSE IF tok = "DLQ" THEN "dlq" ELSE tok

\* str.split(sep): the pieces between the separators, at least one
RECURSIVE SplitFrom(_, _, _, _, _)
SplitFrom(text, sep, k, piece, pieces) ==
    IF k > Len(text) THEN Append(pieces, piece)
    ELSE IF text[k] = sep
         THEN SplitFrom(text, sep, k + 1, <<>>, Append(pieces, piece))
         ELSE SplitFrom(text, sep, k + 1, Append(piece, text[k]), pieces)

Split(text, sep) == SplitFrom(text, sep, 1, <<>>, <<>>)

\* 'dlq' in line or 'error' in line, with no lower()
HasKeywordCaseSensitive(line) ==
    \E k \in 1..Len(line) : line[k] \in {"dlq", "error"}

\* line 216: 'dlq' in line.lower() or 'error' in line.lower()
HasKeyword(line) ==
    \E k \in 1..Len(line) : Lower(line[k]) \in {"dlq", "error"}

\* line 217: line.startswith('#')
StartsWithHash(line) == Len(line) > 0 /\ line[1] = "#"

\* line 219: ' ' in line
HasSpace(line) == \E k \in 1..Len(line) : line[k] = " "

\* lines 215-222
RECURSIVE ParseMetrics(_, _, _)
ParseMetrics(lines, k, metrics) ==
    IF k > Len(lines) THEN metrics
    ELSE LET line == lines[k] IN
         IF HasKeyword(line) /\ ~StartsWithHash(line) /\ HasSpace(line)
         THEN LET metric_name == Split(line, " ")[1]
                  metric_value == Split(line, " ")[2]
              IN  ParseMetrics(lines, k + 1, (metric_name :> metric_value) @@ metrics)
         ELSE ParseMetrics(lines, k + 1, metrics)

\* lines 204-232
check_dlq_metrics(o, text) ==
    IF o.exc THEN EmptyMap
    ELSE IF o.status = 200 THEN ParseMetrics(Split(text, "\n"), 1, EmptyMap)
    ELSE EmptyMap

IdleD == dpc = "idle" /\ mtext = <<>> /\ mout = Exc /\ dlq_metrics = EmptyMap

InitDlq == dpc = "start" /\ mtext \in Texts /\ mout = Exc /\ dlq_metrics = EmptyMap

CheckDlq ==
    /\ dpc = "start"
    /\ \E o \in Outcomes :
        /\ mout' = o
        /\ dlq_metrics' = check_dlq_metrics(o, mtext)
    /\ dpc' = "done"
    /\ UNCHANGED mtext

\* ------------------------------------------------------------------ DataPrepperErrorTester
\* lines 70-156; trace and span ids are left out of the payload
BaseLog(message) ==
    [otlp |-> TRUE,
     service_name |-> "error-test-service",
     timeUnixNano |-> "now",
     has_severityText |-> TRUE,
     has_body |-> TRUE,
     body |-> message,
     attributes |-> <<>>]

create_test_log(log_type, message) ==
    LET base_log == BaseLog(message) IN
    IF log_type = "valid"
    THEN [base_log EXCEPT !.attributes = <<KV("user.id", "12345"), KV("request.method", "GET")>>]
    ELSE IF log_type = "invalid_timestamp"
    THEN [base_log EXCEPT !.timeUnixNano = "invalid-timestamp"]
    ELSE IF log_type = "missing_required_fields"
    THEN [base_log EXCEPT !.has_severityText = FALSE, !.has_body = FALSE, !.body = ""]
    ELSE IF log_type = "oversized_document"
    THEN [base_log EXCEPT !.body = "x * 11MB"]
    ELSE IF log_type = "invalid_json_structure"
    THEN [base_log EXCEPT !.otlp = FALSE, !.has_severityText = FALSE, !.has_body = FALSE,
                          !.body = "", !.service_name = "", !.timeUnixNano = ""]
    ELSE IF log_type = "grok_parse_failure"
    THEN [base_log EXCEPT !.body = "unstructured @@##$$%%",
                          !.attributes = <<KV("log.format", "unstructured")>>]
    ELSE IF log_type = "field_mapping_error"
    THEN [base_log EXCEPT !.attributes = <<KV("timestamp", "not-a-timestamp"),
                                           [key |-> "message", value |-> [intValue |-> 12345]]>>]
    ELSE IF log_type = "unicode_encoding_error"
    THEN [base_log EXCEPT !.body = "problematic unicode",
                          !.attributes = <<KV("unicode.test", "surrogate pair")>>]
    ELSE base_log

\* lines 241-250
test_scenarios ==
    <<"valid_log", "invalid_timestamp", "missing_required_fields", "grok_parse_failure",
      "field_mapping_error", "unicode_encoding_error", "oversized_document",
      "invalid_json_structure">>

NoCall == [fn |-> "none", payload |-> <<>>, reqs |-> <<>>, ret |-> FALSE]
Call(fn, payload, reqs, ret) == [fn |-> fn, payload |-> payload, reqs |-> reqs, ret |-> ret]

\* a sender that posts again when the first POST did not answer 200
send_test_log_retry(log_data, o) ==
    Call("send_test_log", log_data,
         IF ~o.exc /\ o.status = 200
         THEN <<Req("POST", "/v1/logs", o, <<>>)>>
         ELSE <<Req("POST", "/v1/logs", o, <<>>), Req("POST", "/v1/logs", o, <<>>)>>,
         ~o.exc /\ o.status = 200)

\* lines 158-173: one POST, True exactly for status 200
send_test_log(log_data, o) ==
    Call("send_test_log", log_data, <<Req("POST", "/v1/logs", o, <<>>)>>,
         ~o.exc /\ o.status = 200)

\* lines 42-68: every service is asked, each is healthy below status 400
check_services_err(o1, o2, o3) ==
    \A o \in {o1, o2, o3} : ~o.exc /\ o.status < 400

\* a check that returns the document of every 200 answer
check_opensearch_logs_any(o, json) ==
    IF ~o.exc /\ o.status = 200 THEN <<json>> ELSE <<>>

\* lines 180-202: the response document, or {} when anything fails
check_opensearch_logs(o, json) ==
    IF o.exc THEN <<>>
    ELSE IF o.status = 200
    THEN (IF json.total.present /\ json.total.is_dict /\ json.total.has_value
          THEN <<json>>
          ELSE <<>>)
    ELSE <<>>

SampleTexts == {<<"x", "dlq", " ", "x">>, <<"#", " ", "Error", "\n", "x", " ", "x">>}

\* error_rate as a fraction <<p, q>>
Rates == {<<0, 1>>, <<1, 2>>, <<1, 1>>}
NoEArgs == [load_test |-> FALSE, num_logs |-> 0, error_rate |-> <<0, 1>>,
            skip_health_check |-> FALSE]
NoResults == [opensearch_logs |-> <<>>, dlq_metrics |-> EmptyMap]

IdleE ==
    /\ epc = "idle" /\ eargs = NoEArgs /\ ei = 0 /\ test_results = <<>>
    /\ sent_count = 0 /\ error_count = 0 /\ elast = NoCall /\ ehealth = <<>>
    /\ results = NoResults
    /\ eexit = None

InitErr ==
    /\ epc = "start" /\ eargs = NoEArgs /\ ei = 0 /\ test_results = <<>>
    /\ sent_count = 0 /\ error_count = 0 /\ elast = NoCall /\ ehealth = <<>>
    /\ results = NoResults
    /\ eexit = None

\* lines 326-341, 352: parse the command line; the health check is skipped
\* on request
EStart ==
    /\ epc = "start"
    /\ \E load \in BOOLEAN, n \in 0..MaxLoad, rate \in Rates, skip \in BOOLEAN :
        /\ eargs' = [load_test |-> load,
                     num_logs |-> IF load THEN n ELSE 0,
                     error_rate |-> IF load THEN rate ELSE <<0, 1>>,
                     skip_health_check |-> skip]
        /\ epc' = IF ~skip THEN "services" ELSE IF load THEN "load" ELSE "tests"
    /\ UNCHANGED <<ei, test_results, sent_count, error_count, elast, ehealth, results, eexit>>

\* check_services, lines 51-68, and main, lines 354-356: one health request;
\* after the third the verdict is returned and an unhealthy service ends
\* the run with exit code 1
ECheckService ==
    /\ epc = "services"
    /\ \E o \in Outcomes :
        LET answered == Append(ehealth, o)
            healthy == check_services_err(answered[1], answered[2], answered[3])
        IN  /\ ehealth' = answered
            /\ IF Len(answered) < 3
               THEN UNCHANGED <<epc, elast, eexit>>
               ELSE /\ elast' = Call("check_services", <<>>,
                                     <<Req("GET", "otel", answered[1], <<>>),
                                       Req("GET", "/health", answered[2], <<>>),
                                       Req("GET", "/_cluster/health", answered[3], <<>>)>>,
                                     healthy)
                    /\ epc' = IF ~healthy THEN "exit"
                              ELSE IF eargs.load_test THEN "load" ELSE "tests"
                    /\ eexit' = IF healthy THEN None ELSE 1
    /\ UNCHANGED <<eargs, ei, test_results, sent_count, error_count, results>>

\* lines 352-356 stand outside the try block of main: Ctrl-C during a health
\* request is caught by nothing and ends the process with status 130
EServicesInterrupt ==
    /\ epc = "services"
    /\ epc' = "exit"
    /\ eexit' = 130
    /\ UNCHANGED <<eargs, ei, test_results, sent_count, error_count, elast, ehealth, results>>

\* a scenario loop that stops at the first failed send
ETestStepAbort ==
    /\ epc = "tests"
    /\ ei < Len(test_scenarios)
    /\ \E o \in Outcomes :
        LET test_type == test_scenarios[ei + 1]
            log_data == create_test_log(test_type, "Test log message")
            sent == send_test_log(log_data, o)
        IN  /\ elast' = sent
            /\ test_results' = Append(test_results, [test |-> test_type, success |-> sent.ret])
            /\ epc' = IF sent.ret THEN epc ELSE "search"
    /\ ei' = ei + 1
    /\ UNCHANGED <<ehealth, eargs, sent_count, error_count, results, eexit>>

\* lines 252-261: one scenario of run_error_tests
ETestStep ==
    /\ epc = "tests"
    /\ ei < Len(test_scenarios)
    /\ \E o \in Outcomes :
        LET test_type == test_scenarios[ei + 1]
            log_data == create_test_log(test_type, "Test log message")
            sent == send_test_log(log_data, o)
        IN  /\ elast' = sent
            /\ test_results' = Append(test_results, [test |-> test_type, success |-> sent.ret])
    /\ ei' = ei + 1
    /\ UNCHANGED <<ehealth, epc, eargs, sent_count, error_count, results, eexit>>

\* lines 263, 366-373: the loop is over; the summary is printed
ETestsDone ==
    /\ epc = "tests"
    /\ ei >= Len(test_scenarios)
    /\ epc' = "search"
    /\ UNCHANGED <<ehealth, eargs, ei, test_results, sent_count, error_count, elast, results, eexit>>

\* line 302: i / num_logs < error_rate
IsErrorLog(i, n, rate) == i * rate[2] < rate[1] * n

\* lines 300-309: the kind of log i is decided and an error log is counted
\* before it is sent
ELoadPrepare ==
    /\ epc = "load"
    /\ ei < eargs.num_logs
    /\ error_count' = IF IsErrorLog(ei, eargs.num_logs, eargs.error_rate)
                      THEN error_count + 1 ELSE error_count
    /\ epc' = "load_send"
    /\ UNCHANGED <<eargs, ei, test_results, sent_count, elast, ehealth, results, eexit>>

\* the log of iteration i, lines 302-309
LoadLog(i, n, rate) ==
    LET is_error == IsErrorLog(i, n, rate)
        test_type == IF is_error
                     THEN <<"invalid_timestamp", "grok_parse_failure",
                            "field_mapping_error">>[(i % 3) + 1]
                     ELSE "valid"
    IN  create_test_log(test_type,
                        IF is_error THEN "Load test error log" ELSE "Load test valid log")

\* a load loop that counts every log as sent
ELoadSendCountAll ==
    /\ epc = "load_send"
    /\ \E o \in Outcomes :
        LET sent == send_test_log(LoadLog(ei, eargs.num_logs, eargs.error_rate), o)
        IN  /\ elast' = sent
            /\ sent_count' = sent_count + 1
    /\ ei' = ei + 1
    /\ epc' = "load"
    /\ UNCHANGED <<eargs, test_results, error_count, ehealth, results, eexit>>

\* lines 311-317: the POST of log i; sent_count counts the logs answered 200
ELoadSend ==
    /\ epc = "load_send"
    /\ \E o \in Outcomes :
        LET sent == send_test_log(LoadLog(ei, eargs.num_logs, eargs.error_rate), o)
        IN  /\ elast' = sent
            /\ sent_count' = IF sent.ret THEN sent_count + 1 ELSE sent_count
    /\ ei' = ei + 1
    /\ epc' = "load"
    /\ UNCHANGED <<eargs, test_results, error_count, ehealth, results, eexit>>

\* lines 319-323
ELoadDone ==
    /\ epc = "load"
    /\ ei >= eargs.num_logs
    /\ epc' = "search"
    /\ UNCHANGED <<ehealth, eargs, ei, test_results, sent_count, error_count, elast, results, eexit>>

\* run_dlq_validation, line 273
EValidateSearch ==
    /\ epc = "search"
    /\ \E o \in Outcomes, total \in Totals :
        LET json == [NoJson EXCEPT !.total = total]
            data == check_opensearch_logs(o, json)
        IN  /\ elast' = Call("check_opensearch_logs", <<>>,
                             <<Req("POST", "/_search", o, json)>>, data # <<>>)
            /\ results' = [results EXCEPT !.opensearch_logs = data]
    /\ epc' = "metrics"
    /\ UNCHANGED <<ehealth, eargs, ei, test_results, sent_count, error_count, eexit>>

\* run_dlq_validation, line 276
EValidateMetrics ==
    /\ epc = "metrics"
    /\ \E o \in Outcomes, text \in SampleTexts :
        LET m == check_dlq_metrics(o, text) IN
        /\ elast' = Call("check_dlq_metrics", <<>>,
                         <<Req("GET", "/metrics", o, <<>>)>>, m # EmptyMap)
        /\ results' = [results EXCEPT !.dlq_metrics = m]
    /\ epc' = "health"
    /\ UNCHANGED <<ehealth, eargs, ei, test_results, sent_count, error_count, eexit>>

\* run_dlq_validation, lines 279-291
EValidateHealth ==
    /\ epc = "health"
    /\ \E o \in Outcomes :
        elast' = Call("run_dlq_validation", <<>>, <<Req("GET", "/health", o, <<>>)>>, TRUE)
    /\ epc' = "report"
    /\ UNCHANGED <<ehealth, eargs, ei, test_results, sent_count, error_count, results, eexit>>

\* lines 377-378: what the final report reads from the results;
\* .get on a scalar hits.total raises AttributeError
FinalReport(res) ==
    LET total == IF res.opensearch_logs = <<>> THEN TotalAbsent
                 ELSE res.opensearch_logs[1].total
    IN  [raises |-> total.present /\ ~total.is_dict,
         hits |-> IF total.present /\ total.is_dict /\ total.has_value THEN total.n ELSE 0,
         metrics |-> Cardinality(DOMAIN res.dlq_metrics)]

\* lines 375-391: the final report; main returns, or the handler of
\* Exception exits with 1 when the report raised
EReport ==
    /\ epc = "report"
    /\ epc' = "exit"
    /\ eexit' = IF FinalReport(results).raises THEN 1 ELSE 0
    /\ UNCHANGED <<ehealth, eargs, ei, test_results, sent_count, error_count, elast, results>>

\* lines 387-389: Ctrl-C inside the try block
EInterrupt ==
    /\ epc \in {"tests", "load", "load_send", "search", "metrics", "health", "report"}
    /\ epc' = "exit"
    /\ eexit' = 1
    /\ UNCHANGED <<ehealth, eargs, ei, test_results, sent_count, error_count, elast, results>>


\* ------------------------------------------------------------------ DataPrepperIntegrationTest
test_service_name == "integration-test-service"
max_attempts == 30

ServiceNames == <<"OTEL Collector", "Data Prepper", "OpenSearch">>

\* lines 61-68: one attempt of wait_for_service
AttemptReady(o) == ~o.exc /\ o.status = 200

\* lines 388-416; has1: index_templates is present and non-empty, has2: the
\* index list is non-empty
verify_index_template(o1, has1, o2, has2) ==
    IF o1.exc
    THEN Call("verify_index_template", <<>>, <<Req("GET", "/_index_template", o1, <<>>)>>, FALSE)
    ELSE IF o1.status = 200 /\ has1
    THEN Call("verify_index_template", <<>>, <<Req("GET", "/_index_template", o1, <<>>)>>, TRUE)
    ELSE Call("verify_index_template", <<>>,
              <<Req("GET", "/_index_template", o1, <<>>),
                Req("GET", "/_cat/indices", o2, <<>>)>>,
              ~o2.exc /\ o2.status = 200 /\ has2)

\* lines 196-220: the payload is generate_test_logs(num_logs)
send_test_logs(n, o) ==
    Call("send_test_logs", <<"generate_test_logs", n>>,
         <<Req("POST", "/v1/logs", o, <<>>)>>, ~o.exc /\ o.status = 200)

\* lines 227-233
refresh_opensearch_indices(o) == ~o.exc /\ o.status = 200

\* a hit count that reads the object form only
HitCountObjectOnly(total) ==
    IF total.present /\ total.is_dict /\ total.has_value THEN total.n ELSE 0

\* lines 266-271: the hit count of the response
HitCount(total) ==
    LET hit_count == IF total.present THEN total ELSE TotalNoValue IN
    IF hit_count.is_dict
    THEN (IF hit_count.has_value THEN hit_count.n ELSE 0)
    ELSE hit_count.n

\* a search that wants more hits than expected
search_logs_in_opensearch_strict(expected_count, orefresh, o, json) ==
    Call("search_logs_in_opensearch", <<>>,
         <<Req("POST", "/_refresh", orefresh, <<>>), Req("GET", "/_search", o, json)>>,
         ~o.exc /\ o.status = 200 /\ HitCount(json.total) > expected_count)

\* lines 235-293: (success, result)
search_logs_in_opensearch(expected_count, orefresh, o, json) ==
    Call("search_logs_in_opensearch", <<>>,
         <<Req("POST", "/_refresh", orefresh, <<>>), Req("GET", "/_search", o, json)>>,
         ~o.exc /\ o.status = 200 /\ HitCount(json.total) >= expected_count)

\* a field check that asks for the key only
MissingFieldsPresence(log_entry) ==
    {f \in {"@timestamp", "service_name", "service_version", "message", "severity_text"} :
        f \notin DOMAIN log_entry}

\* a value that Python takes for true
Truthy(v) == v \notin {None, "", Zero}

required_fields == <<"@timestamp", "service_name", "service_version", "message", "severity_text">>

\* lines 328-332
MissingFields(log_entry) ==
    {f \in Range(required_fields) : ~(f \in DOMAIN log_entry /\ Truthy(log_entry[f]))}

\* lines 295-350
verify_log_transformation(o, json) ==
    Call("verify_log_transformation", <<>>, <<Req("GET", "/_search", o, json)>>,
         /\ ~o.exc /\ o.status = 200
         /\ json.hits # <<>>
         /\ MissingFields(IF json.hits[1].has_source THEN json.hits[1]._source ELSE EmptyMap) = {})

FullSource == [f \in Range(required_fields) |-> "x"]
SampleSources ==
    {FullSource,
     [FullSource EXCEPT !["message"] = ""],
     [FullSource EXCEPT !["@timestamp"] = None],
     [f \in Range(required_fields) \ {"service_version"} |-> "x"],
     [FullSource EXCEPT !["severity_text"] = Zero],
     ("pipeline_processed" :> "x") @@ FullSource,
     ("pipeline_processed" :> "") @@ ("processed_at" :> None) @@ FullSource,
     ("processed_at" :> "x") @@ [FullSource EXCEPT !["service_name"] = ""]}
SampleHitLists ==
    {<<>>} \cup {<<[has_source |-> TRUE, _source |-> src]>> : src \in SampleSources}
    \cup {<<[has_source |-> TRUE, _source |-> [FullSource EXCEPT !["message"] = ""]],
            [has_source |-> TRUE, _source |-> FullSource]>>,
          <<[has_source |-> TRUE, _source |-> FullSource],
            [has_source |-> TRUE, _source |-> [FullSource EXCEPT !["message"] = ""]]>>}

\* str.count(sub) > 0 on a text given as its tokens
Count(text, tok) == Cardinality({k \in 1..Len(text) : text[k] = tok})

\* lines 352-386
check_data_prepper_metrics(o, text) ==
    Call("check_data_prepper_metrics", <<>>, <<Req("GET", "/metrics", o, <<>>)>>,
         /\ ~o.exc /\ o.status = 200
         /\ Count(text, "log_pipeline_recordsIn_total") > 0
         /\ Count(text, "log_pipeline_recordsOut_total") > 0)

PipelineTexts ==
    {<<>>,
     <<"log_pipeline_recordsIn_total", " ", "x">>,
     <<"log_pipeline_recordsIn_total", " ", "x", "\n", "log_pipeline_recordsOut_total", " ", "x">>}

\* a cleanup that passes only when the delete was answered 200
cleanup_test_data_strict(o) ==
    Call("cleanup_test_data", <<>>, <<Req("POST", "/_delete_by_query", o, <<>>)>>,
         ~o.exc /\ o.status = 200)

\* lines 418-444: True for every status, False on a transport exception
cleanup_test_data(o) ==
    Call("cleanup_test_data", <<>>, <<Req("POST", "/_delete_by_query", o, <<>>)>>, ~o.exc)

NoIArgs == [cleanup |-> FALSE, num_logs |-> 0]

IdleI ==
    /\ ipc = "idle" /\ iargs = NoIArgs /\ iservice = 0 /\ iattempt = 0 /\ inflight = 0
    /\ itest_results = <<>> /\ ilast = NoCall /\ iret = None /\ iexit = None

InitInt ==
    /\ ipc = "start" /\ iargs = NoIArgs /\ iservice = 0 /\ iattempt = 0 /\ inflight = 0
    /\ itest_results = <<>> /\ ilast = NoCall /\ iret = None /\ iexit = None
    /\ store \in {[s \in Services |-> IF s = test_service_name THEN n ELSE 0] : n \in {0, 1}}

Result(name, result) == [name |-> name, result |-> result]

\* the run is over: run_integration_tests returns and main exits (lines 535-536)
Finish(success) ==
    /\ ipc' = "exit"
    /\ iret' = IF success THEN "True" ELSE "False"
    /\ iexit' = IF success THEN 0 ELSE 1

\* lines 530-535, 446-455: parse the command line and enter check_services
IStart ==
    /\ ipc = "start"
    /\ \E cleanup \in BOOLEAN, n \in 0..MaxLogs :
        iargs' = [cleanup |-> cleanup, num_logs |-> n]
    /\ ipc' = "services"
    /\ iservice' = 1
    /\ iattempt' = 0
    /\ UNCHANGED <<inflight, itest_results, ilast, iret, iexit, store>>

\* a wait loop that does not count its attempts
IAttemptUncounted ==
    /\ ipc = "services"
    /\ iattempt < max_attempts
    /\ \E o \in Outcomes :
        /\ ilast' = Call("wait_for_service", ServiceNames[iservice],
                         <<Req("GET", ServiceNames[iservice], o, <<>>)>>, AttemptReady(o))
        /\ IF AttemptReady(o)
           THEN /\ iattempt' = 0
                /\ IF iservice < Len(ServiceNames)
                   THEN /\ iservice' = iservice + 1
                        /\ UNCHANGED <<ipc, itest_results>>
                   ELSE /\ iservice' = 0
                        /\ ipc' = "template"
                        /\ itest_results' = Append(itest_results, Result("Service Check", TRUE))
           ELSE UNCHANGED <<ipc, iservice, iattempt, itest_results>>
    /\ UNCHANGED <<iargs, inflight, iret, iexit, store>>

\* lines 61-71, 86-88: one attempt of wait_for_service for the current service
IAttempt ==
    /\ ipc = "services"
    /\ iattempt < max_attempts
    /\ \E o \in Outcomes :
        /\ ilast' = Call("wait_for_service", ServiceNames[iservice],
                         <<Req("GET", ServiceNames[iservice], o, <<>>)>>, AttemptReady(o))
        /\ IF AttemptReady(o)
           THEN /\ iattempt' = 0
                /\ IF iservice < Len(ServiceNames)
                   THEN /\ iservice' = iservice + 1
                        /\ UNCHANGED <<ipc, itest_results>>
                   ELSE /\ iservice' = 0
                        /\ ipc' = "template"
                        /\ itest_results' = Append(itest_results, Result("Service Check", TRUE))
           ELSE /\ iattempt' = iattempt + 1
                /\ UNCHANGED <<ipc, iservice, itest_results>>
    /\ UNCHANGED <<iargs, inflight, iret, iexit, store>>

\* lines 73-74, 87-88, 455-457: the attempts are used up
IServiceFailed ==
    /\ ipc = "services"
    /\ iattempt >= max_attempts
    /\ Finish(FALSE)
    /\ UNCHANGED <<iargs, iservice, iattempt, inflight, itest_results, ilast, store>>

\* lines 460-463
ITemplate ==
    /\ ipc = "template"
    /\ \E o1 \in Outcomes, has1 \in BOOLEAN, o2 \in Outcomes, has2 \in BOOLEAN :
        LET c == verify_index_template(o1, has1, o2, has2) IN
        /\ ilast' = c
        /\ itest_results' = Append(itest_results, Result("Index Template", c.ret))
    /\ ipc' = "send"
    /\ UNCHANGED <<iargs, iservice, iattempt, inflight, iret, iexit, store>>

\* a step 3 that goes on to the wait after a failed send
ISendContinue ==
    /\ ipc = "send"
    /\ \E o \in Outcomes :
        LET c == send_test_logs(iargs.num_logs, o) IN
        /\ ilast' = c
        /\ itest_results' = Append(itest_results, Result("Send Test Logs", c.ret))
        /\ inflight' = IF c.ret THEN iargs.num_logs ELSE 0
    /\ ipc' = "wait"
    /\ UNCHANGED <<iargs, iservice, iattempt, iret, iexit, store>>

\* lines 465-470
ISend ==
    /\ ipc = "send"
    /\ \E o \in Outcomes :
        LET c == send_test_logs(iargs.num_logs, o) IN
        /\ ilast' = c
        /\ IF c.ret
           THEN /\ itest_results' = Append(itest_results, Result("Send Test Logs", TRUE))
                /\ inflight' = iargs.num_logs
                /\ ipc' = "wait"
                /\ UNCHANGED <<iret, iexit>>
           ELSE /\ Finish(FALSE)
                /\ UNCHANGED <<itest_results, inflight>>
    /\ UNCHANGED <<iargs, iservice, iattempt, store>>

\* lines 472-474: fifteen seconds in which the pipeline may index the logs
IWait ==
    /\ ipc = "wait"
    /\ \E indexed \in BOOLEAN :
        /\ store' = IF indexed
                    THEN [store EXCEPT ![test_service_name] = @ + inflight]
                    ELSE store
        /\ inflight' = IF indexed THEN 0 ELSE inflight
    /\ ipc' = "search"
    /\ UNCHANGED <<iargs, iservice, iattempt, itest_results, ilast, iret, iexit>>

\* lines 476-482; the search engine counts the documents of the service
ISearch ==
    /\ ipc = "search"
    /\ \E orefresh \in Outcomes, o \in Outcomes,
          total \in {TotalAbsent, TotalNoValue, TotalScalar(store[test_service_name]),
                     TotalObject(store[test_service_name])} :
        LET c == search_logs_in_opensearch(iargs.num_logs, orefresh, o,
                                           [NoJson EXCEPT !.total = total])
        IN  /\ ilast' = c
            /\ IF c.ret
               THEN /\ itest_results' = Append(itest_results, Result("Log Search", TRUE))
                    /\ ipc' = "transform"
                    /\ UNCHANGED <<iret, iexit>>
               ELSE /\ Finish(FALSE)
                    /\ UNCHANGED itest_results
    /\ UNCHANGED <<iargs, iservice, iattempt, inflight, store>>

\* lines 484-487
ITransform ==
    /\ ipc = "transform"
    /\ \E o \in Outcomes, hits \in SampleHitLists :
        LET c == verify_log_transformation(o, [NoJson EXCEPT !.hits = hits]) IN
        /\ ilast' = c
        /\ itest_results' = Append(itest_results, Result("Log Transformation", c.ret))
    /\ ipc' = "metrics"
    /\ UNCHANGED <<iargs, iservice, iattempt, inflight, iret, iexit, store>>

\* lines 489-492
IMetrics ==
    /\ ipc = "metrics"
    /\ \E o \in Outcomes, text \in PipelineTexts :
        LET c == check_data_prepper_metrics(o, text) IN
        /\ ilast' = c
        /\ itest_results' = Append(itest_results, Result("Data Prepper Metrics", c.ret))
    /\ ipc' = IF iargs.cleanup THEN "cleanup" ELSE "summary"
    /\ UNCHANGED <<iargs, iservice, iattempt, inflight, iret, iexit, store>>

\* lines 494-498
ICleanup ==
    /\ ipc = "cleanup"
    /\ \E o \in Outcomes :
        LET c == cleanup_test_data(o) IN
        /\ ilast' = c
        /\ itest_results' = Append(itest_results, Result("Cleanup", c.ret))
        /\ store' = StoreAfterDelete(store, test_service_name, o)
    /\ ipc' = "summary"
    /\ UNCHANGED <<iargs, iservice, iattempt, inflight, iret, iexit>>

\* a summary that passes whatever the steps recorded
ISummaryPass ==
    /\ ipc = "summary"
    /\ Finish(TRUE)
    /\ UNCHANGED <<iargs, iservice, iattempt, inflight, itest_results, ilast, store>>

\* lines 500-522, 535-536
ISummary ==
    /\ ipc = "summary"
    /\ Finish(\A k \in 1..Len(itest_results) : itest_results[k].result)
    /\ UNCHANGED <<iargs, iservice, iattempt, inflight, itest_results, ilast, store>>

\* lines 537-539: Ctrl-C during the run
IInterrupt ==
    /\ ipc \notin {"idle", "start", "exit"}
    /\ ipc' = "exit"
    /\ iexit' = 1
    /\ UNCHANGED <<iargs, iservice, iattempt, inflight, itest_results, ilast, iret, store>>

\* ------------------------------------------------------------------ two integration-test runs, one store
Runs == {1, 2}

NoSearch == [done |-> FALSE, ret |-> FALSE, answered |-> FALSE, total |-> TotalAbsent, own |-> 0]

IdleC ==
    /\ cpc = [r \in Runs |-> "idle"]
    /\ cargs = [r \in Runs |-> NoIArgs]
    /\ cinflight = [r \in Runs |-> 0]
    /\ cown = [r \in Runs |-> 0]
    /\ csearch = [r \in Runs |-> NoSearch]

\* both runs are started against a store that holds n documents of the test service
InitRace ==
    /\ cpc = [r \in Runs |-> "start"]
    /\ cargs = [r \in Runs |-> NoIArgs]
    /\ cinflight = [r \in Runs |-> 0]
    /\ csearch = [r \in Runs |-> NoSearch]
    /\ \E n \in {0, 1} :
        /\ store = [s \in Services |-> IF s = test_service_name THEN n ELSE 0]
        /\ cown = [r \in Runs |-> n]

\* lines 530-535: parse the command line
CStart(r) ==
    /\ cpc[r] = "start"
    /\ \E cleanup \in BOOLEAN, n \in 1..MaxLogs :
        cargs' = [cargs EXCEPT ![r] = [cleanup |-> cleanup, num_logs |-> n]]
    /\ cpc' = [cpc EXCEPT ![r] = "services"]
    /\ UNCHANGED <<cinflight, cown, csearch, store>>

\* lines 453-463: steps 1 and 2; a failed service check ends the run
CServices(r) ==
    /\ cpc[r] = "services"
    /\ \E ready \in BOOLEAN : cpc' = [cpc EXCEPT ![r] = IF ready THEN "send" ELSE "exit"]
    /\ UNCHANGED <<cargs, cinflight, cown, csearch, store>>

\* lines 465-470: step 3
CSend(r) ==
    /\ cpc[r] = "send"
    /\ \E o \in Outcomes :
        LET c == send_test_logs(cargs[r].num_logs, o) IN
        /\ cinflight' = [cinflight EXCEPT ![r] = IF c.ret THEN cargs[r].num_logs ELSE 0]
        /\ cpc' = [cpc EXCEPT ![r] = IF c.ret THEN "wait" ELSE "exit"]
    /\ UNCHANGED <<cargs, cown, csearch, store>>

\* the pipeline indexes the logs of a run, at any time after they were accepted
CIndex(r) ==
    /\ cinflight[r] > 0
    /\ store' = [store EXCEPT ![test_service_name] = @ + cinflight[r]]
    /\ cown' = [cown EXCEPT ![r] = @ + cinflight[r]]
    /\ cinflight' = [cinflight EXCEPT ![r] = 0]
    /\ UNCHANGED <<cpc, cargs, csearch>>

\* lines 472-474: step 4, the sleep is over
CWait(r) ==
    /\ cpc[r] = "wait"
    /\ cpc' = [cpc EXCEPT ![r] = "search"]
    /\ UNCHANGED <<cargs, cinflight, cown, csearch, store>>

\* lines 476-482: step 5; the search engine counts the documents of the service
CSearch(r) ==
    /\ cpc[r] = "search"
    /\ \E orefresh \in {Answer(200)}, o \in {Exc, Answer(200), Answer(500)},
          total \in {TotalScalar(store[test_service_name]),
                     TotalObject(store[test_service_name])} :
        LET json == [NoJson EXCEPT !.total = total]
            c == search_logs_in_opensearch(cargs[r].num_logs, orefresh, o, json)
            answered == ~o.exc /\ o.status = 200
        IN  /\ csearch' = [csearch EXCEPT ![r] =
                              [done |-> TRUE, ret |-> c.ret, answered |-> answered,
                               total |-> IF answered THEN total ELSE TotalAbsent,
                               own |-> cown[r]]]
            /\ cpc' = [cpc EXCEPT ![r] = IF c.ret THEN "verify" ELSE "exit"]
    /\ UNCHANGED <<cargs, cinflight, cown, store>>

\* lines 484-492: steps 6 and 7 only read
CVerify(r) ==
    /\ cpc[r] = "verify"
    /\ cpc' = [cpc EXCEPT ![r] = IF cargs[r].cleanup THEN "cleanup" ELSE "exit"]
    /\ UNCHANGED <<cargs, cinflight, cown, csearch, store>>

\* lines 494-498: step 8 deletes every document of the test service
CCleanup(r) ==
    /\ cpc[r] = "cleanup"
    /\ \E o \in Outcomes : store' = StoreAfterDelete(store, test_service_name, o)
    /\ cpc' = [cpc EXCEPT ![r] = "exit"]
    /\ UNCHANGED <<cargs, cinflight, cown, csearch>>

\* ------------------------------------------------------------------ specifications
InitGen == IdleG /\ IdleR /\ IdleV /\ NoStore /\ IdleD /\ IdleE /\ IdleI /\ IdleC
NextGen ==
    \/ (CallOtlp /\ UNCHANGED <<rvars, store, vvars, dvars, evars, ivars, cvars>>)
    \/ (OtlpIter /\ UNCHANGED <<rvars, store, vvars, dvars, evars, ivars, cvars>>)
    \/ (OtlpReturn /\ UNCHANGED <<rvars, store, vvars, dvars, evars, ivars, cvars>>)
    \/ (CallStructured /\ UNCHANGED <<rvars, store, vvars, dvars, evars, ivars, cvars>>)
    \/ (StructuredIter /\ UNCHANGED <<rvars, store, vvars, dvars, evars, ivars, cvars>>)
    \/ (StructuredReturn /\ UNCHANGED <<rvars, store, vvars, dvars, evars, ivars, cvars>>)
SpecGen == InitGen /\ [][NextGen]_vars

InitRes == InitResolve /\ IdleG /\ IdleV /\ NoStore /\ IdleD /\ IdleE /\ IdleI /\ IdleC
NextRes == Resolve /\ UNCHANGED <<gvars, store, vvars, dvars, evars, ivars, cvars>>
SpecResolve == InitRes /\ [][NextRes]_vars

NextVer ==
    \/ (VParse /\ UNCHANGED <<rvars, gvars, dvars, evars, ivars, cvars>>)
    \/ (VConnect /\ UNCHANGED <<rvars, gvars, dvars, evars, ivars, cvars>>)
    \/ (VStatus /\ UNCHANGED <<rvars, gvars, dvars, evars, ivars, cvars>>)
    \/ (VSearch /\ UNCHANGED <<rvars, gvars, dvars, evars, ivars, cvars>>)
    \/ (VStatsCount /\ UNCHANGED <<rvars, gvars, dvars, evars, ivars, cvars>>)
    \/ (VStatsAggregate /\ UNCHANGED <<rvars, gvars, dvars, evars, ivars, cvars>>)
    \/ (VVerifyFields /\ UNCHANGED <<rvars, gvars, dvars, evars, ivars, cvars>>)
    \/ (VDeleteService /\ UNCHANGED <<rvars, gvars, dvars, evars, ivars, cvars>>)
    \/ (VInterrupt /\ UNCHANGED <<rvars, gvars, dvars, evars, ivars, cvars>>)
InitVerifier == InitVer /\ IdleG /\ IdleR /\ IdleD /\ IdleE /\ IdleI /\ IdleC
SpecVer == InitVerifier /\ [][NextVer]_vars

NextErr ==
    \/ (EStart /\ UNCHANGED <<rvars, gvars, store, vvars, dvars, ivars, cvars>>)
    \/ (ECheckService /\ UNCHANGED <<rvars, gvars, store, vvars, dvars, ivars, cvars>>)
    \/ (EServicesInterrupt /\ UNCHANGED <<rvars, gvars, store, vvars, dvars, ivars, cvars>>)
    \/ (ETestStep /\ UNCHANGED <<rvars, gvars, store, vvars, dvars, ivars, cvars>>)
    \/ (ETestsDone /\ UNCHANGED <<rvars, gvars, store, vvars, dvars, ivars, cvars>>)
    \/ (ELoadPrepare /\ UNCHANGED <<rvars, gvars, store, vvars, dvars, ivars, cvars>>)
    \/ (ELoadSend /\ UNCHANGED <<rvars, gvars, store, vvars, dvars, ivars, cvars>>)
    \/ (ELoadDone /\ UNCHANGED <<rvars, gvars, store, vvars, dvars, ivars, cvars>>)
    \/ (EValidateSearch /\ UNCHANGED <<rvars, gvars, store, vvars, dvars, ivars, cvars>>)
    \/ (EValidateMetrics /\ UNCHANGED <<rvars, gvars, store, vvars, dvars, ivars, cvars>>)
    \/ (EValidateHealth /\ UNCHANGED <<rvars, gvars, store, vvars, dvars, ivars, cvars>>)
    \/ (EReport /\ UNCHANGED <<rvars, gvars, store, vvars, dvars, ivars, cvars>>)
    \/ (EInterrupt /\ UNCHANGED <<rvars, gvars, store, vvars, dvars, ivars, cvars>>)
InitErrTester == InitErr /\ IdleG /\ IdleR /\ IdleV /\ NoStore /\ IdleD /\ IdleI /\ IdleC
SpecErr == InitErrTester /\ [][NextErr]_vars

InitDlqMetrics == InitDlq /\ IdleG /\ IdleR /\ IdleV /\ NoStore /\ IdleE /\ IdleI /\ IdleC
NextDlq == CheckDlq /\ UNCHANGED <<rvars, gvars, store, vvars, evars, ivars, cvars>>
SpecDlq == InitDlqMetrics /\ [][NextDlq]_vars

NextInt ==
    \/ (IStart /\ UNCHANGED <<rvars, gvars, vvars, dvars, evars, cvars>>)
    \/ (IAttempt /\ UNCHANGED <<rvars, gvars, vvars, dvars, evars, cvars>>)
    \/ (IServiceFailed /\ UNCHANGED <<rvars, gvars, vvars, dvars, evars, cvars>>)
    \/ (ITemplate /\ UNCHANGED <<rvars, gvars, vvars, dvars, evars, cvars>>)
    \/ (ISend /\ UNCHANGED <<rvars, gvars, vvars, dvars, evars, cvars>>)
    \/ (IWait /\ UNCHANGED <<rvars, gvars, vvars, dvars, evars, cvars>>)
    \/ (ISearch /\ UNCHANGED <<rvars, gvars, vvars, dvars, evars, cvars>>)
    \/ (ITransform /\ UNCHANGED <<rvars, gvars, vvars, dvars, evars, cvars>>)
    \/ (IMetrics /\ UNCHANGED <<rvars, gvars, vvars, dvars, evars, cvars>>)
    \/ (ICleanup /\ UNCHANGED <<rvars, gvars, vvars, dvars, evars, cvars>>)
    \/ (ISummary /\ UNCHANGED <<rvars, gvars, vvars, dvars, evars, cvars>>)
    \/ (IInterrupt /\ UNCHANGED <<rvars, gvars, vvars, dvars, evars, cvars>>)
InitIntegration == InitInt /\ IdleG /\ IdleR /\ IdleV /\ IdleD /\ IdleE /\ IdleC
SpecInt == InitIntegration /\ [][NextInt]_vars
\* the process keeps running while it has a step to take
SpecIntLive == SpecInt /\ WF_vars(NextInt)

NextRace ==
    \/ \E r \in Runs : CStart(r) /\ UNCHANGED <<rvars, gvars, vvars, dvars, evars, ivars>>
    \/ \E r \in Runs : CServices(r) /\ UNCHANGED <<rvars, gvars, vvars, dvars, evars, ivars>>
    \/ \E r \in Runs : CSend(r) /\ UNCHANGED <<rvars, gvars, vvars, dvars, evars, ivars>>
    \/ \E r \in Runs : CIndex(r) /\ UNCHANGED <<rvars, gvars, vvars, dvars, evars, ivars>>
    \/ \E r \in Runs : CWait(r) /\ UNCHANGED <<rvars, gvars, vvars, dvars, evars, ivars>>
    \/ \E r \in Runs : CSearch(r) /\ UNCHANGED <<rvars, gvars, vvars, dvars, evars, ivars>>
    \/ \E r \in Runs : CVerify(r) /\ UNCHANGED <<rvars, gvars, vvars, dvars, evars, ivars>>
    \/ \E r \in Runs : CCleanup(r) /\ UNCHANGED <<rvars, gvars, vvars, dvars, evars, ivars>>
InitTwoRuns == InitRace /\ IdleG /\ IdleR /\ IdleV /\ IdleD /\ IdleE /\ IdleI
SpecRace == InitTwoRuns /\ [][NextRace]_vars

\* one run of any of the three scripts that talk to the pipeline
Init == InitVerifier \/ InitErrTester \/ InitIntegration
Next == NextVer \/ NextErr \/ NextInt
Spec == Init /\ [][Next]_vars

\* ------------------------------------------------------------------ claims
SeverityCatalog == {t.severity : t \in Range(generate_log_templates)}

ReturnedRecords == gresult[1].resourceLogs[1].scopeLogs[1].logRecords

\* C1: the tree returned by generate_otlp_logs(N) holds, under its single
\* scope, exactly N log records, each with a non-empty severityText whose
\* (severityNumber, severityText) is a pair of the template catalog.
C1_BatchSize ==
    gpc = "otlp_done" =>
        /\ Len(gresult[1].resourceLogs) = 1
        /\ Len(gresult[1].resourceLogs[1].scopeLogs) = 1
        /\ Len(ReturnedRecords) = num_logs
        /\ \A k \in 1..Len(ReturnedRecords) :
              /\ ReturnedRecords[k].severityText # ""
              /\ <<ReturnedRecords[k].severityNumber, ReturnedRecords[k].severityText>>
                    \in SeverityCatalog

C1_Witness ==
    /\ gpc = "otlp_done"
    /\ num_logs >= 2
    /\ Len(ReturnedRecords) = num_logs
    /\ ReturnedRecords[1].severityText # ReturnedRecords[2].severityText

\* C2: all records of one batch call (generate_otlp_logs and
\* generate_structured_logs) carry the same trace identifier, and a trace_id
\* supplied to generate_otlp_logs is that identifier.
C2_SharedTrace ==
    /\ gpc = "otlp_done" =>
          /\ \A j, k \in 1..Len(ReturnedRecords) :
                ReturnedRecords[j].traceId = ReturnedRecords[k].traceId
          /\ trace_arg # None =>
                \A k \in 1..Len(ReturnedRecords) : ReturnedRecords[k].traceId = trace_arg
    /\ gpc = "structured_done" =>
          \A j, k \in 1..Len(gresult[1]) : gresult[1][j].trace_id = gresult[1][k].trace_id

\* C3: the message returned by resolve_template_values is the template with
\* every placeholder replaced by a value, or the template text unchanged;
\* never a mix of replaced and unreplaced placeholders.
FullySubstituted(message, message_template) ==
    /\ Len(message) = Len(message_template)
    /\ \A k \in 1..Len(message) :
          IF message_template[k].kind = "ph"
          THEN message[k].kind = "val"
          ELSE message[k] = message_template[k]

C3_AllOrNothing ==
    (rpc = "done" /\ resolved.outcome = "return") =>
        \/ resolved.message = template.message_template
        \/ FullySubstituted(resolved.message, template.message_template)

\* a template with one placeholder that an attribute provides and one that
\* none provides: the message comes back unformatted
C3_Witness ==
    /\ rpc = "done" /\ resolved.outcome = "return"
    /\ \E j, k \in 1..Len(template.message_template) :
          /\ template.message_template[j].kind = "ph"
          /\ template.message_template[k].kind = "ph"
          /\ \E a \in 1..Len(template.attributes) :
                template.attributes[a].key = template.message_template[j].name
          /\ \A a \in 1..Len(template.attributes) :
                template.attributes[a].key[1] # template.message_template[k].name[1]
    /\ resolved.message = template.message_template

\* C4: verify_log_fields over a non-empty sample of K documents reports, for
\* each required field, present + missing = K, and total_logs_checked = K.
C4_PresentPlusMissing ==
    (vret.kind = "fields" /\ vret.success) =>
        LET K == Len(vreqs[Len(vreqs)].json.hits) IN
        /\ K > 0
        /\ vret.fields.total_logs_checked = K
        /\ \A k \in 1..Len(vargs.fields) :
              LET st == vret.fields.field_statistics[vargs.fields[k]]
              IN  st.present + st.missing = K

\* C5: when the count query is answered 200 with hits.total = n or
\* hits.total = {value: n}, get_log_statistics returns total_logs = n,
\* whatever the aggregation query meets.
C5_TotalLogs ==
    (vret.kind = "stats" /\ ~vreqs[2].exc /\ vreqs[2].status = 200
        /\ vreqs[2].json.total.present
        /\ (vreqs[2].json.total.is_dict => vreqs[2].json.total.has_value)) =>
        /\ vret.stats.error = ""
        /\ vret.stats.total_logs = vreqs[2].json.total.n

\* hits.total.value = 5 and a failed aggregation query: total_logs = 5
C5_Witness ==
    /\ vret.kind = "stats"
    /\ Len(vreqs) = 3
    /\ vreqs[2].status = 200 /\ vreqs[2].json.total = TotalObject(5)
    /\ vreqs[3].status = 500
    /\ vret.stats.total_logs = 5

\* hits.total = 5 as a scalar and a successful aggregation query
C5_WitnessScalar ==
    /\ vret.kind = "stats"
    /\ Len(vreqs) = 3
    /\ vreqs[2].status = 200 /\ vreqs[2].json.total = TotalScalar(5)
    /\ vreqs[3].status = 200
    /\ vret.stats.total_logs = 5

\* C9: a delete-by-query request is issued only by delete-service with
\* --confirm; a delete-service run without --confirm sends none and leaves
\* the store as it was.
DeleteIssued == \E k \in 1..Len(vreqs) : vreqs[k].path = "/_delete_by_query"

C9_ConfirmGuard ==
    /\ [](DeleteIssued => (vargs.command = "delete-service" /\ vargs.confirm))
    /\ [][(vargs.command = "delete-service" /\ ~vargs.confirm) => store' = store]_vars

\* delete-service without --confirm, on a service that has documents, has ended
C9_Witness ==
    /\ vpc = "exit"
    /\ vargs.command = "delete-service" /\ ~vargs.confirm
    /\ Len(vreqs) = 1 /\ vreqs[1].status = 200
    /\ store[vargs.service_name] > 0
    /\ ~DeleteIssued

\* delete-service with --confirm, answered 200, has emptied the service
C9_WitnessConfirmed ==
    /\ vpc = "exit"
    /\ vargs.command = "delete-service" /\ vargs.confirm
    /\ DeleteIssued /\ vret.success
    /\ store[vargs.service_name] = 0

\* C10: the mapping returned by check_dlq_metrics for a text answered with
\* status 200 has an entry for a line exactly when the line does not start
\* with '#', contains 'dlq' or 'error' in any letter case, and contains a
\* space; the entry is keyed by the text before the line's first space.
KeywordTokens == {"dlq", "DLQ", "error", "Error"}
IsComment(line) == line # <<>> /\ Head(line) = "#"
Selected(line) == ~IsComment(line) /\ (\E k \in 1..Len(line) : line[k] \in KeywordTokens)
SpaceAt(line) == {k \in 1..Len(line) : line[k] = " "}
FirstSpace(line) == CHOOSE k \in SpaceAt(line) : \A j \in SpaceAt(line) : k <= j
\* the text before the first space (the whole line when it has none)
NameOf(line) == IF SpaceAt(line) = {} THEN line ELSE SubSeq(line, 1, FirstSpace(line) - 1)
\* the lines of the text: the maximal runs of tokens between line breaks
BreakAt == {0, Len(mtext) + 1} \cup {k \in 1..Len(mtext) : mtext[k] = "\n"}
MetricLines ==
    {SubSeq(mtext, a + 1, b - 1) :
        <<a, b>> \in {p \in BreakAt \X BreakAt :
                        p[1] < p[2] /\ \A c \in BreakAt : ~(p[1] < c /\ c < p[2])}}

C10_SelectedLinesWithSpace ==
    (dpc = "done" /\ ~mout.exc /\ mout.status = 200) =>
        DOMAIN dlq_metrics =
            {NameOf(line) : line \in {l \in MetricLines : Selected(l) /\ SpaceAt(l) # {}}}

\* C10 as stated: every line that does not start with '#' and contains a
\* keyword has an entry, and no other line has one.
C10_SelectedLines ==
    (dpc = "done" /\ ~mout.exc /\ mout.status = 200) =>
        DOMAIN dlq_metrics = {NameOf(line) : line \in {l \in MetricLines : Selected(l)}}

\* a text with a keyword line that has no space, and a metric line in mixed
\* case that has one: only the second has an entry
C10_Witness ==
    /\ dpc = "done" /\ ~mout.exc /\ mout.status = 200
    /\ \E l \in MetricLines : Selected(l) /\ SpaceAt(l) = {}
    /\ \E l \in MetricLines : Selected(l) /\ SpaceAt(l) # {} /\ l[1] = "Error"
    /\ DOMAIN dlq_metrics = {<<"Error">>}

\* one request, a POST to the collector path, and True exactly for status 200
SinglePost(c) ==
    /\ Len(c.reqs) = 1
    /\ c.reqs[1].method = "POST"
    /\ c.reqs[1].path = "/v1/logs"
    /\ c.ret <=> (~c.reqs[1].exc /\ c.reqs[1].status = 200)
\* C7: every call of send_test_log (error-handling test) and of send_test_logs
\* (integration test) issues exactly one request, a POST to /v1/logs, and
\* returns True exactly when that POST was answered with status 200; after
\* another status or a transport exception it returns False and no second
\* POST is issued.
C7_SinglePost ==
    /\ (elast.fn = "send_test_log" => SinglePost(elast))
    /\ (ilast.fn = "send_test_logs" => SinglePost(ilast))
C7_Witness ==
    /\ elast.fn = "send_test_log"
    /\ Len(elast.reqs) = 1
    /\ ~elast.reqs[1].exc /\ elast.reqs[1].status = 204
    /\ ~elast.ret

\* the functions that issue requests and return a truth value
CheckFunctions ==
    {"check_services", "send_test_log", "check_opensearch_logs", "check_dlq_metrics",
     "wait_for_service", "verify_index_template", "send_test_logs",
     "search_logs_in_opensearch", "verify_log_transformation",
     "check_data_prepper_metrics", "cleanup_test_data"}
OnlyNon200(c) ==
    /\ c.fn \in CheckFunctions
    /\ c.reqs # <<>>
    /\ \A k \in 1..Len(c.reqs) : ~c.reqs[k].exc /\ c.reqs[k].status # 200
\* C6: a function that issues HTTP requests and gets a non-200 answer to
\* each of them returns a falsy result (stated for the functions of the
\* error-handling test and of the integration test, whose result is a truth
\* value).
C6_Non200Falsy ==
    /\ (OnlyNon200(elast) => ~elast.ret)
    /\ (OnlyNon200(ilast) => ~ilast.ret)

\* what went wrong in a run
ConnectionFailed == vreqs # <<>> /\ ~(~vreqs[1].exc /\ vreqs[1].status = 200)
ScenarioFailed == \E k \in 1..Len(test_results) : ~test_results[k].success
\* C8: a run ends with exit code 1 when its health or connection check
\* failed, when a scenario or verification failed, and when it was
\* interrupted; exit code 0 is left for full success.
C8_ExitCodes ==
    /\ (vpc = "exit" /\ ConnectionFailed => vexit = 1)
    /\ (vpc = "exit" /\ vret.kind # "none" /\ ~vret.success => vexit = 1)
    /\ (epc = "exit" /\ ScenarioFailed => eexit = 1)
    /\ (ipc = "exit" /\ iret # "True" => iexit = 1)

\* the text after the first space
ValueOf(line) == SubSeq(line, FirstSpace(line) + 1, Len(line))
\* C11: every entry of the mapping holds, under the text before the first
\* space of a selected line, the whole text after that first space.
C11_FirstSpaceSplit ==
    (dpc = "done" /\ ~mout.exc /\ mout.status = 200) =>
        \A name \in DOMAIN dlq_metrics :
            dlq_metrics[name] \in
                {ValueOf(l) : l \in {m \in MetricLines :
                                        Selected(m) /\ SpaceAt(m) # {} /\ NameOf(m) = name}}

\* the attributes of the template whose value is a generator
CallableAttributes == {a \in 1..Len(template.attributes) : template.attributes[a].callable}
\* C12: one call of resolve_template_values invokes each callable attribute
\* generator exactly once, and every value substituted into the message for a
\* placeholder is the value stored in the record for the attribute of that
\* name.
C12_OneDrawPerAttribute ==
    (rpc = "done") =>
        /\ resolved.calls = Cardinality(CallableAttributes)
        /\ \A k \in 1..Len(resolved.message) :
              resolved.message[k].kind = "val" =>
                  \E a \in 1..Len(resolved.attributes) :
                      /\ resolved.attributes[a].key = template.message_template[k].name
                      /\ resolved.attributes[a].value = resolved.message[k].text
\* a generated value that went into the message and into the record
C12_Witness ==
    /\ rpc = "done" /\ resolved.outcome = "return"
    /\ \E k \in 1..Len(resolved.message), a \in CallableAttributes :
          /\ resolved.message[k].kind = "val"
          /\ template.attributes[a].key = template.message_template[k].name
          /\ resolved.message[k].text = "v2"
          /\ resolved.attributes[a].value = "v2"
    /\ resolved.calls = 2

\* the value of a resource attribute of a returned tree
ResourceAttribute(tree, key) ==
    LET attrs == tree.resourceLogs[1].resource.attributes
    IN  attrs[CHOOSE k \in 1..Len(attrs) : attrs[k].key = key].value.stringValue
ResourceKeys ==
    {"service.name", "service.version", "host.name", "container.name", "deployment.environment"}
AtOtlpReturn == gpc = "otlp" /\ gi >= num_logs
\* C13 as amended: the returned tree has one resource entry with one scope
\* that holds all generated records; host.name and deployment.environment are
\* drawn per batch, each independently of the other, while service.name,
\* service.version and container.name are fixed by the generator.
C13_TwoRandomized ==
    /\ AtOtlpReturn =>
          \A host \in {"host-01", "host-10"}, env \in {"development", "staging"} :
              ENABLED (/\ OtlpReturn
                       /\ ResourceAttribute(gresult'[1], "host.name") = host
                       /\ ResourceAttribute(gresult'[1], "deployment.environment") = env)
    /\ gpc = "otlp_done" =>
          /\ Len(gresult[1].resourceLogs) = 1
          /\ Len(gresult[1].resourceLogs[1].scopeLogs) = 1
          /\ gresult[1].resourceLogs[1].scopeLogs[1].logRecords = log_records
          /\ Len(log_records) = num_logs
          /\ {gresult[1].resourceLogs[1].resource.attributes[k].key : k \in 1..5} = ResourceKeys
          /\ ResourceAttribute(gresult[1], "service.name") = "test-service"
          /\ ResourceAttribute(gresult[1], "service.version") = "1.0.0"
          /\ ResourceAttribute(gresult[1], "container.name") = <<"test-service", "-container">>
\* C13 as stated: at the return, each of the five resource attributes can come
\* out different from what one draw gives.
C13_EachRandomized ==
    AtOtlpReturn =>
        \A key \in ResourceKeys :
            \E h \in Draws, e \in Draws :
                ENABLED (/\ OtlpReturn
                         /\ ResourceAttribute(gresult'[1], key)
                              # ResourceAttribute(OtlpTree(log_records, h, e), key))
\* a returned batch of two records on the second host in staging
C13_Witness ==
    /\ gpc = "otlp_done" /\ num_logs = 2
    /\ Len(gresult[1].resourceLogs[1].scopeLogs[1].logRecords) = 2
    /\ ResourceAttribute(gresult[1], "host.name") = "host-10"
    /\ ResourceAttribute(gresult[1], "deployment.environment") = "staging"

\* the canonical hit count of a response: hits.total as a scalar, or its
\* value field, or 0
CanonicalCount(total) ==
    CASE ~total.present -> 0
      [] total.present /\ ~total.is_dict -> total.n
      [] total.present /\ total.is_dict /\ total.has_value -> total.n
      [] OTHER -> 0
\* C14: search_logs_in_opensearch(service, expected) returns True exactly when
\* the search request was answered with status 200 and the canonical hit
\* count of the answer is at least expected.
C14_SearchVerdict ==
    ilast.fn = "search_logs_in_opensearch" =>
        (ilast.ret <=>
            /\ ~ilast.reqs[2].exc
            /\ ilast.reqs[2].status = 200
            /\ CanonicalCount(ilast.reqs[2].json.total) >= iargs.num_logs)
\* a search answered with a scalar hits.total that reaches the expected count
C14_Witness ==
    /\ ilast.fn = "search_logs_in_opensearch"
    /\ iargs.num_logs = 2
    /\ ilast.reqs[2].status = 200
    /\ ilast.reqs[2].json.total = TotalScalar(2)
    /\ ilast.ret

\* the verdict run r would reach alone, with the same answer to its search:
\* the store would hold what it held at the start plus the run's own
\* indexed documents
Alone(r) == csearch[r].answered /\ csearch[r].own >= cargs[r].num_logs
\* C15: with two runs interleaved on one store, the Log Search verdict of a
\* run follows the number of documents of the service in the store at the
\* time of its search, whoever wrote or deleted them; a verdict that differs
\* from the one the run reaches alone comes from a store count that is not the
\* run's own, and such a verdict is reachable (see the witness).
C15_VerdictFollowsSharedStore ==
    \A r \in Runs :
        csearch[r].done =>
            /\ csearch[r].ret <=>
                  (csearch[r].answered
                     /\ CanonicalCount(csearch[r].total) >= cargs[r].num_logs)
            /\ (csearch[r].ret # Alone(r)) =>
                  (csearch[r].answered /\ csearch[r].total.n # csearch[r].own)
\* run 1 passed on documents of run 2 although none of its own was indexed,
\* and run 2 failed after the cleanup of run 1 deleted its documents
C15_Witness ==
    /\ csearch[1].done /\ csearch[1].ret /\ ~Alone(1)
    /\ csearch[2].done /\ ~csearch[2].ret /\ Alone(2)
    /\ store[test_service_name] = 0

\* the steps of run_integration_tests in their order, each with the steps
\* that may follow it (the exit follows a failed service check, send or
\* search, the summary, or an interrupt)
StepOrder ==
    {<<"start", "services">>, <<"services", "template">>, <<"template", "send">>,
     <<"send", "wait">>, <<"wait", "search">>, <<"search", "transform">>,
     <<"transform", "metrics">>, <<"metrics", "cleanup">>, <<"metrics", "summary">>,
     <<"cleanup", "summary">>}
    \cup {<<step, "exit">> : step \in {"services", "template", "send", "wait", "search",
                                       "transform", "metrics", "cleanup", "summary"}}
SendPassed == \E k \in 1..Len(itest_results) : itest_results[k] = Result("Send Test Logs", TRUE)
\* C16: the steps of a run follow the order service check, index-template
\* check, send, wait, search, transformation check, metrics check, optional
\* cleanup; the run goes from one service to the next and on to the later
\* steps only after the service answered ready; search, transformation,
\* metrics and cleanup requests are made only after a successful send; a
\* failed service check, send or search ends the run with result False.
C16_StepOrder ==
    /\ [][ipc' # ipc => <<ipc, ipc'>> \in StepOrder]_vars
    /\ [][(ipc = "services" /\ (iservice' # iservice \/ ipc' = "template"))
            => (ilast'.fn = "wait_for_service" /\ ilast'.ret
                /\ ilast'.payload = ServiceNames[iservice]
                /\ (ipc' = "template" <=> iservice = 3))]_vars
    /\ [](ilast.fn \in {"search_logs_in_opensearch", "verify_log_transformation",
                        "check_data_prepper_metrics", "cleanup_test_data"} => SendPassed)
    /\ [](ilast.fn \in {"send_test_logs", "search_logs_in_opensearch"} /\ ~ilast.ret
            => ipc = "exit" /\ iret = "False")
    /\ [](ipc = "exit" /\ ilast.fn = "wait_for_service" /\ iret # None
            => iret = "False" /\ iattempt = max_attempts)
\* a complete run with cleanup: every step was taken and recorded in order
C16_Witness ==
    /\ ipc = "exit" /\ iret = "True"
    /\ ilast.fn = "cleanup_test_data"
    /\ [k \in 1..Len(itest_results) |-> itest_results[k].name]
         = <<"Service Check", "Index Template", "Send Test Logs", "Log Search",
             "Log Transformation", "Data Prepper Metrics", "Cleanup">>

\* the sampled documents in which a field exists with a non-null value
SampledHits == vreqs[Len(vreqs)].json.hits
WithValue(field) ==
    {h \in 1..Len(SampledHits) :
        /\ SampledHits[h].has_source
        /\ field \in DOMAIN SampledHits[h]._source
        /\ SampledHits[h]._source[field] # None}
\* C17: for every sample and every required field, 'present' is the number
\* of sampled documents in which the field exists with a non-null value (the
\* empty string counts as present) and 'missing' is the number of the others.
C17_PresentCount ==
    (vret.kind = "fields" /\ vret.success) =>
        \A k \in 1..Len(vargs.fields) :
            LET st == vret.fields.field_statistics[vargs.fields[k]] IN
            /\ st.present = Cardinality(WithValue(vargs.fields[k]))
            /\ st.missing = Len(SampledHits) - Cardinality(WithValue(vargs.fields[k]))
\* the same count for the required fields that are named once
C17_PresentCountDistinct ==
    (vret.kind = "fields" /\ vret.success) =>
        \A k \in 1..Len(vargs.fields) :
            (\A j \in 1..Len(vargs.fields) : vargs.fields[j] = vargs.fields[k] => j = k) =>
                LET st == vret.fields.field_statistics[vargs.fields[k]] IN
                /\ st.present = Cardinality(WithValue(vargs.fields[k]))
                /\ st.missing = Len(SampledHits) - Cardinality(WithValue(vargs.fields[k]))

\* hits.total is a scalar or an object with a value field
CountedShape(total) == total.present /\ (~total.is_dict \/ total.has_value)
\* C18: answered with status 200 and a hits.total of either shape,
\* check_opensearch_logs returns the response document; it returns the empty
\* mapping only after another status or a transport failure.
C18_EitherShape ==
    elast.fn = "check_opensearch_logs" =>
        LET req == elast.reqs[1] IN
        IF ~req.exc /\ req.status = 200
        THEN CountedShape(req.json.total) => results.opensearch_logs = <<req.json>>
        ELSE results.opensearch_logs = <<>>

\* the attributes of the valid payload
ValidAttributes ==
    <<[key |-> "user.id", value |-> [stringValue |-> "12345"]],
      [key |-> "request.method", value |-> [stringValue |-> "GET"]]>>
\* C19: in run_error_tests the first scenario, 'Valid log processing', sends
\* a record with the attributes user.id=12345 and request.method=GET, and
\* every other scenario sends a payload that its own branch of
\* create_test_log changed.
C19_ValidScenarioPayload ==
    (epc = "tests" /\ elast.fn = "send_test_log") =>
        /\ ei = 1 => elast.payload.attributes = ValidAttributes
        /\ ei > 1 => elast.payload # BaseLog("Test log message")

\* one microsecond, in nanoseconds
MicrosecondNs == 1000
\* C20: record i of a batch of generate_otlp_logs carries timeUnixNano =
\* observedTimeUnixNano = base + i microseconds, in nanoseconds, so the
\* timestamps strictly increase with the record index.
C20_MicrosecondOffset ==
    gpc = "otlp_done" =>
        \A k \in 1..Len(ReturnedRecords) :
            /\ ReturnedRecords[k].timeUnixNano = current_time_ns + (k - 1) * MicrosecondNs
            /\ ReturnedRecords[k].observedTimeUnixNano = ReturnedRecords[k].timeUnixNano
            /\ k > 1 => ReturnedRecords[k].timeUnixNano > ReturnedRecords[k - 1].timeUnixNano
\* the timestamps as the code spaces them: equal in both fields and strictly
\* increasing
C20_Increasing ==
    gpc = "otlp_done" =>
        \A k \in 1..Len(ReturnedRecords) :
            /\ ReturnedRecords[k].observedTimeUnixNano = ReturnedRecords[k].timeUnixNano
            /\ k > 1 => ReturnedRecords[k].timeUnixNano > ReturnedRecords[k - 1].timeUnixNano

\* C21: in a run of the verifier the first request is the connection check,
\* and when it fails (another status than 200, or a transport error) no
\* further request is issued, no command result is produced and the store is
\* left as it is.
C21_ConnectionFirst ==
    /\ [](vreqs # <<>> => (vreqs[1].method = "GET" /\ vreqs[1].path = "/"))
    /\ [](vreqs # <<>> /\ (vreqs[1].exc \/ vreqs[1].status # 200)
            => (Len(vreqs) = 1 /\ vret = NoRet))
    /\ [][vreqs # <<>> /\ (vreqs[1].exc \/ vreqs[1].status # 200)
            => (vreqs' = vreqs /\ store' = store)]_vars
\* a confirmed delete-service whose connection check was answered 500: the
\* run is over after that one request
C21_Witness ==
    /\ vpc = "exit"
    /\ vargs.command = "delete-service" /\ vargs.confirm
    /\ Len(vreqs) = 1 /\ ~vreqs[1].exc /\ vreqs[1].status = 500
    /\ store[vargs.service_name] = 2

\* the wait for one service is still going on
Waiting(s) == ipc = "services" /\ iservice = s
\* C22: wait_for_service always terminates; every attempt is one request; an
\* attempt answered 200 ends the wait at once with True; a failed attempt
\* (another status or a transport error) is counted; the wait ends with
\* False when max_attempts attempts have failed, and never makes more than
\* max_attempts requests.
C22_WaitTerminates ==
    /\ \A s \in 1..3 : Waiting(s) ~> ~Waiting(s)
    /\ [](iattempt <= 30)
    /\ [][(ipc = "services"
            /\ (ilast' # ilast \/ iattempt' # iattempt \/ iservice' # iservice)) =>
            /\ ilast'.fn = "wait_for_service" /\ Len(ilast'.reqs) = 1
            /\ iattempt < 30
            /\ IF ~ilast'.reqs[1].exc /\ ilast'.reqs[1].status = 200
               THEN /\ ilast'.ret /\ iattempt' = 0
                    /\ (ipc' # "services" \/ iservice' # iservice)
               ELSE /\ ~ilast'.ret /\ iattempt' = iattempt + 1
                    /\ ipc' = "services" /\ iservice' = iservice]_vars
    /\ [][(ipc = "services" /\ iret' = "False") => iattempt = 30]_vars
\* thirty attempts failed, the last one on a transport error: the wait gave
\* up and the run returned False
C22_Witness ==
    /\ ipc = "exit" /\ iret = "False"
    /\ ilast.fn = "wait_for_service" /\ ilast.reqs[1].exc
    /\ iattempt = 30 /\ iservice = 2

\* what the run recorded
AllRecordedTrue == \A k \in 1..Len(itest_results) : itest_results[k].result
Recorded(name) == \E k \in 1..Len(itest_results) : itest_results[k].name = name
ReachedSummary ==
    /\ Recorded("Data Prepper Metrics")
    /\ iargs.cleanup => Recorded("Cleanup")
Returned == ipc = "exit" /\ iret \in {"True", "False"}
\* C23 as amended: run_integration_tests returns True exactly when the run
\* reached the summary (service check, send and search passed) and every
\* recorded step result is True; the index-template, transformation, metrics
\* and cleanup steps never end the run themselves, a False among them makes
\* the result False; the exit code is 0 for True and 1 for False.
C23_AllStepsPassed ==
    /\ [](Returned => (iret = "True" <=> (ReachedSummary /\ AllRecordedTrue)))
    /\ [](Returned => iexit = (IF iret = "True" THEN 0 ELSE 1))
    /\ [][(ipc \in {"template", "transform", "metrics", "cleanup"}) => (iret' = None)]_vars
\* C23 as stated: the run returns True exactly when every recorded step
\* result is True.
C23_IffAllRecordedTrue ==
    Returned => (iret = "True" <=> AllRecordedTrue)
\* a failed index-template check did not stop the run: the later steps were
\* recorded, and the run returned False with exit code 1
C23_Witness ==
    /\ Returned /\ iret = "False" /\ iexit = 1
    /\ Len(itest_results) = 6
    /\ itest_results[2] = [name |-> "Index Template", result |-> FALSE]
    /\ \A k \in {1, 3, 4, 5, 6} : itest_results[k].result

\* C24: the delete-by-query of the test service's documents is issued only
\* in step 8 of a run that asked for cleanup and passed the service check,
\* the send and the search; at every other step the documents in the store
\* stay; the cleanup step is recorded as passed for every HTTP status of the
\* delete response and as failed only after a transport exception.
C24_CleanupStep ==
    /\ [][(ilast'.fn = "cleanup_test_data" /\ ilast.fn # "cleanup_test_data") =>
            /\ ipc = "cleanup" /\ iargs.cleanup
            /\ Len(ilast'.reqs) = 1
            /\ ilast'.reqs[1].method = "POST" /\ ilast'.reqs[1].path = "/_delete_by_query"
            /\ \A name \in {"Service Check", "Send Test Logs", "Log Search"} :
                  \E k \in 1..Len(itest_results) : itest_results[k] = [name |-> name, result |-> TRUE]
            /\ itest_results' =
                  Append(itest_results, [name |-> "Cleanup", result |-> ~ilast'.reqs[1].exc])]_vars
    /\ [][store'[test_service_name] < store[test_service_name] => ipc = "cleanup"]_vars
    /\ [](ilast.fn # "cleanup_test_data" =>
            \A k \in 1..Len(itest_results) : itest_results[k].name # "Cleanup")
\* the delete was answered 500: the documents are still in the store and the
\* cleanup step is recorded as passed
C24_Witness ==
    /\ ilast.fn = "cleanup_test_data"
    /\ ~ilast.reqs[1].exc /\ ilast.reqs[1].status = 500
    /\ itest_results[Len(itest_results)] = [name |-> "Cleanup", result |-> TRUE]
    /\ store[test_service_name] > 0

\* the scenarios of run_error_tests as listed
ListedScenarios ==
    <<"valid_log", "invalid_timestamp", "missing_required_fields", "grok_parse_failure",
      "field_mapping_error", "unicode_encoding_error", "oversized_document",
      "invalid_json_structure">>
\* C25: run_error_tests sends the eight scenarios in their listed order, one
\* POST each, whatever the earlier sends returned; the results hold one entry
\* per scenario sent, True exactly when the scenario's POST was answered 200,
\* and all eight entries when the loop is over.
C25_AllScenarios ==
    /\ [](epc = "tests" => Len(test_results) = ei)
    /\ [](\A k \in 1..Len(test_results) : test_results[k].test = ListedScenarios[k])
    /\ []((epc \in {"search", "metrics", "health", "report"} /\ ~eargs.load_test)
            => Len(test_results) = 8)
    /\ [][(epc = "tests" /\ test_results' # test_results) =>
            /\ elast'.fn = "send_test_log" /\ Len(elast'.reqs) = 1
            /\ test_results' =
                  Append(test_results,
                         [test |-> ListedScenarios[ei + 1],
                          success |-> (~elast'.reqs[1].exc /\ elast'.reqs[1].status = 200)])
            /\ epc' = "tests"]_vars
\* all eight scenarios were sent although the first and the third send failed
C25_Witness ==
    /\ epc = "search" /\ ~eargs.load_test
    /\ Len(test_results) = 8
    /\ ~test_results[1].success /\ test_results[2].success /\ ~test_results[3].success
    /\ test_results[8].success

\* index i of a load test is an error log: i / num_logs < error_rate, with
\* the rate given as a fraction
ErrorIndex(i) == i * eargs.error_rate[2] < eargs.error_rate[1] * eargs.num_logs
AfterLoad == epc \in {"search", "metrics", "health", "report"} /\ eargs.load_test
\* C26: generate_load_test(num_logs, error_rate) posts exactly num_logs logs
\* (none for num_logs = 0); log i is an error log exactly when
\* i / num_logs < error_rate, so the error logs are a prefix of the sequence;
\* error_count counts them and sent_count counts the POSTs answered 200,
\* hence 0 <= sent_count <= num_logs and error_count <= num_logs.
C26_LoadTest ==
    /\ [](epc = "load" =>
            /\ ei <= eargs.num_logs
            /\ error_count = Cardinality({i \in 0..(ei - 1) : ErrorIndex(i)})
            /\ 0 <= sent_count /\ sent_count <= ei)
    /\ [](epc = "load_send" =>
            /\ ei < eargs.num_logs
            /\ error_count = Cardinality({i \in 0..ei : ErrorIndex(i)})
            /\ 0 <= sent_count /\ sent_count <= ei)
    /\ [](epc = "load" =>
            \A i, j \in 0..(eargs.num_logs - 1) : (i < j /\ ErrorIndex(j)) => ErrorIndex(i))
    /\ [](AfterLoad =>
            /\ ei = eargs.num_logs
            /\ 0 <= sent_count /\ sent_count <= eargs.num_logs
            /\ error_count <= eargs.num_logs)
    /\ [][(epc \in {"load", "load_send"} /\ ei' # ei) =>
            /\ ei' = ei + 1
            /\ elast'.fn = "send_test_log" /\ Len(elast'.reqs) = 1
            /\ (elast'.payload.attributes = ValidAttributes) <=> ~ErrorIndex(ei)
            /\ sent_count' = sent_count
                  + (IF ~elast'.reqs[1].exc /\ elast'.reqs[1].status = 200 THEN 1 ELSE 0)]_vars
\* a load test of two logs at rate 1/2: the first log was the error log and
\* its POST failed, the second was answered 200
C26_Witness ==
    /\ AfterLoad /\ epc = "search"
    /\ eargs.num_logs = 2 /\ eargs.error_rate = <<1, 2>>
    /\ ei = 2 /\ error_count = 1 /\ sent_count = 1
    /\ elast.fn = "send_test_log" /\ elast.ret
    /\ elast.payload.attributes = ValidAttributes

\* C27: resolve_template_values leaves the template it is given unchanged:
\* after any number of calls the template still has its message_template,
\* its severity and its attribute mapping with the generators still callable;
\* the resolved values are in the returned copy only.
C27_TemplateUnchanged ==
    /\ [](template = template0)
    /\ [][rpc' = "done" =>
            /\ template'.message_template = template.message_template
            /\ template'.severity = template.severity
            /\ template'.attributes = template.attributes
            /\ \A k \in 1..Len(template.attributes) :
                  /\ template'.attributes[k].callable = template.attributes[k].callable
                  /\ resolved'.attributes[k].key = template.attributes[k].key]_vars
\* a second call on the same template drew another value: the copy holds
\* it, the template still holds the generator
C27_Witness ==
    /\ rpc = "done" /\ resolved.outcome = "return"
    /\ template = template0
    /\ Len(template.attributes) = 1 /\ template.attributes[1].callable
    /\ resolved.attributes[1].value = "v1"
    /\ Len(resolved.message) = 1 /\ resolved.message[1] = Val("v1")
    /\ template.message_template[1].kind = "ph"

\* C28: the results of run_dlq_validation hold both keys, opensearch_logs
\* and dlq_metrics, whatever the search, metrics and health requests met;
\* the document under opensearch_logs is empty or carries an object count
\* with a value, so the final report reads its hit count (0 when absent)
\* and the number of metrics, and finishes with exit code 0.
C28_ReportReads ==
    /\ DOMAIN results = {"opensearch_logs", "dlq_metrics"}
    /\ Len(results.opensearch_logs) \in {0, 1}
    /\ epc = "report" =>
          /\ \/ results.opensearch_logs = <<>>
             \/ /\ results.opensearch_logs[1].total.present
                /\ results.opensearch_logs[1].total.is_dict
                /\ results.opensearch_logs[1].total.has_value
          /\ FinalReport(results).hits =
                (IF results.opensearch_logs = <<>> THEN 0
                 ELSE results.opensearch_logs[1].total.n)
          /\ FinalReport(results).metrics = Cardinality(DOMAIN results.dlq_metrics)
          /\ ENABLED (EReport /\ eexit' = 0)
\* the search, metrics and health requests all failed and the report was
\* printed from the two empty results
C28_Witness ==
    /\ epc = "exit" /\ eexit = 0
    /\ results = NoResults
    /\ elast.fn = "run_dlq_validation" /\ elast.reqs[1].exc

\* the body of a generated record: body.stringValue of an OTLP record,
\* message of a structured entry
BodyOf(rec) == IF "body" \in DOMAIN rec THEN rec.body.stringValue ELSE rec.message

AuthLiteral == Lit("User authentication successful for user_id=")

OtherLiterals ==
    {Lit("Database connection failed: "), Lit("Processing request with correlation_id="),
     Lit("Critical system failure: "), Lit("High response time detected: "), Lit("Order ")}

\* C29: every generated record drawn from the 'User authentication
\* successful' template carries the unformatted body, the placeholder
\* {user_id} still in place; a record drawn from one of the other five
\* catalog templates carries a body in which every placeholder was
\* replaced by a value.
C29_AuthBodyUnformatted ==
    \A k \in 1..Len(log_records) :
        LET body == BodyOf(log_records[k]) IN
        /\ body[1] \in {AuthLiteral} \cup OtherLiterals
        /\ body[1] = AuthLiteral => body = <<AuthLiteral, Ph(<<"user_id">>)>>
        /\ body[1] \in OtherLiterals =>
              /\ \A j \in 1..Len(body) : body[j].kind \in {"lit", "val"}
              /\ \E j \in 1..Len(body) : body[j].kind = "val"
\* one call produced a record of the authentication template and a record
\* of the order template
C29_Witness ==
    /\ gpc = "otlp_done" /\ Len(log_records) = 2
    /\ BodyOf(log_records[1]) = <<AuthLiteral, Ph(<<"user_id">>)>>
    /\ BodyOf(log_records[2]) = <<Lit("Order "), Val("ORD-100000"),
                                  Lit(" processed successfully for customer "),
                                  Val("CUST-10000")>>

\* the request and the first hit of the last verify_log_transformation call
TransformReq == ilast.reqs[1]
FirstHit == TransformReq.json.hits[1]._source

\* C30: verify_log_transformation returns True exactly when the search
\* answered 200 with at least one hit whose first document holds each of
\* @timestamp, service_name, service_version, message and severity_text
\* with a value that is not empty, 0 or null; pipeline_processed and
\* processed_at play no part in the result.
C30_TransformVerdict ==
    ilast.fn = "verify_log_transformation" =>
        (ilast.ret <=>
            /\ ~TransformReq.exc /\ TransformReq.status = 200
            /\ Len(TransformReq.json.hits) >= 1
            /\ \A f \in {"@timestamp", "service_name", "service_version",
                         "message", "severity_text"} :
                  /\ f \in DOMAIN FirstHit
                  /\ FirstHit[f] # ""
                  /\ FirstHit[f] # Zero
                  /\ FirstHit[f] # None)
\* the verification passed on a document whose optional fields are empty
C30_Witness ==
    /\ ilast.fn = "verify_log_transformation" /\ ilast.ret
    /\ {"pipeline_processed", "processed_at"} \subseteq DOMAIN FirstHit
    /\ FirstHit["pipeline_processed"] = "" /\ FirstHit["processed_at"] = None

====
